---- MODULE Spec2Model ----
(***************************************************************************)
(* A model of gh-contrib-scraper-report-gen: the command line pipeline of  *)
(* src/main.py and the functions of src/modules/api.py, metadata.py,       *)
(* reports.py and diff.py it drives.                                       *)
(*                                                                         *)
(* Python values are modelled as follows.  A dict is a sequence of         *)
(* <<key, value>> pairs in insertion order; a list is a sequence; a str is *)
(* a string, with strip() and lower() given as tables over the strings the *)
(* model uses.  A token specification is the sequence of the segments that *)
(* split(',') yields, each segment either "owner:token" or a bare token.   *)
(* A datetime is an integer.  The remote service and the file system are   *)
(* the environment: what a call returns, and whether it raises, is chosen  *)
(* when the call is made.  A command line argument is chosen when main     *)
(* first reads it; until then its variable holds a value of its type that  *)
(* nothing reads.  A variable the program cannot read again is put back to *)
(* that value at the next step of main (the locals of a function that has  *)
(* returned, an argument read for the last time): main.py never reads      *)
(* args.ca_bundle after validate_args, nor token_str after                 *)
(* initialize_apis.                                                        *)
(***************************************************************************)
EXTENDS Integers, Sequences, FiniteSets, TLC

VARIABLES
    pc,            \* position of the program
    exitCode,      \* -1 while running, else the process exit code
    \* validate_args
    since_date,    \* the datetime parse_date returns
    no_verify_ssl, \* args.no_verify_ssl
    ca_bundle,     \* args.ca_bundle ("" when not given)
    ssl_verify,    \* "true", "false" or the CA bundle path
    \* credential router
    env_token,     \* os.environ['GITHUB_TOKEN'] ("" when unset)
    token_str,     \* main: token_str, as its comma separated segments
    token_map,     \* main: token_map, the dict parse_token_map returns
    apis,          \* the dict of clients initialize_apis builds
    default_api,   \* initialize_apis: default_api (NoClient for None)
    owner_idx,     \* initialize_apis: position of the loop over token_map.items()
    next_id,       \* number of GitHubAPI objects constructed so far
    parsed_map,    \* history: the dict as parse_token_map returned it
    \* repositories
    repo_full_names,  \* main: the list parse_repo_list returns
    repos_by_owner,   \* main: the dict group_repos_by_owner returns
    fr_idx,           \* fetch_repositories: position of the loop over repos_by_owner.items()
    repos,            \* the list of Repository objects fetched so far
    \* process_commits_and_prs
    fetch_pr_commits,       \* args.fetch_pr_commits
    include_merge_commits,  \* args.include_merge_commits
    proc_idx,               \* position of the loop over repos
    processed_repo_names,
    all_commit_records,     \* direct commit records
    all_pull_requests,
    pr_idx,                 \* position of the loop over all_pull_requests
    processed_pr_numbers,
    all_pr_commit_records,  \* PR commit records
    all_unique_commit_records,  \* main: the list process_commits_and_prs returns
    \* output
    files,         \* the files of the output directory, name -> content
    diff_idx,      \* save_commit_diffs: position of the loop over commit_records
    limits,        \* args.limit_download_diffs, <<files, lines changed>>
    report_formats,  \* args.report_formats, {} until generate_reports reads it
    commit_fields,   \* args.commit_fields
    remote,          \* what the remote service holds for the listing a client
                     \* operation is applied to on its own
    \* main_gui.launch_interface
    proc_ref,      \* proc_ref['proc']: the invocation whose child it holds, 0 for None
    run_pc,        \* the place of every invocation of run_tool
    child,         \* the child process of every invocation
    run_btn,       \* the Run button
    abort_btn,     \* the Abort button
    log_output,    \* the lines appended to log_output.content
    \* history
    calls,         \* the remote calls made: operation, target, client, response
    faults         \* the file writes and the reads for a diff that raised

ctlVars == <<pc, exitCode>>

argVars == <<since_date, no_verify_ssl, ca_bundle, ssl_verify>>

routerVars == <<env_token, token_str, token_map, apis, default_api,
                owner_idx, next_id, parsed_map>>

repoVars == <<repo_full_names, repos_by_owner, fr_idx, repos>>

aggVars == <<fetch_pr_commits, include_merge_commits, proc_idx,
             processed_repo_names, all_commit_records, all_pull_requests, pr_idx,
             processed_pr_numbers, all_pr_commit_records>>

outVars == <<files, diff_idx, limits, report_formats>>

histVars == <<calls, faults>>

inVars == <<commit_fields, remote>>

guiVars == <<proc_ref, run_pc, child, run_btn, abort_btn, log_output>>

vars == <<ctlVars, argVars, routerVars, repoVars, aggVars,
          all_unique_commit_records, outVars, histVars, inVars, guiVars>>

\* everything but the program position and the credential router
notRouter == <<argVars, repoVars, aggVars, all_unique_commit_records,
               outVars, histVars>>

-----------------------------------------------------------------------------
(* Bounds of the model. *)

\* longest token specification, in comma separated segments
MaxSegs == 3
\* longest listing handed to a listing operation on its own
MaxListing == 3
\* invocations of run_tool, and lines of output read from the children
MaxRuns == 2
MaxLog == 2
\* longest commit record list handed to the report generator on its own
MaxRender == 3
\* longest direct commit list and longest PR commit list handed to the merge
MaxMerge == 3
\* longest value of --token the whole pipeline is run on, in segments
MaxMainSegs == 2
\* longest value of --repositories, in comma separated segments
MaxRepos == 2
\* a paginated listing raises, if it does, at one of its first MaxFailAt entries
MaxFailAt == 2

-----------------------------------------------------------------------------
(* Strings. *)

\* str.strip() on the strings of the model
Strip(s) ==
    CASE s = " Bob" -> "Bob"
      [] s = " tb " -> "tb"
      [] s = " Bob/r2" -> "Bob/r2"
      [] OTHER -> s

\* str.lower() on the strings of the model
Lower(s) ==
    CASE s = "Bob" -> "bob"
      [] s = " Bob" -> " bob"
      [] OTHER -> s

\* the placeholder key of the default token
DefaultKey == "_default"

-----------------------------------------------------------------------------
(* dict, as a sequence of <<key, value>> pairs in insertion order. *)

DictKeys(d) == {d[i][1] : i \in 1..Len(d)}

DictHas(d, k) == k \in DictKeys(d)

\* d[k], for a key of d
DictGet(d, k) == d[CHOOSE i \in 1..Len(d) : d[i][1] = k][2]

\* d[k] = v: an existing key keeps its position, a new key is appended
DictSet(d, k, v) ==
    IF DictHas(d, k)
    THEN [i \in 1..Len(d) |-> IF d[i][1] = k THEN <<k, v>> ELSE d[i]]
    ELSE Append(d, <<k, v>>)

\* d without key k (d.pop(k, None) leaves this behind)
DictDel(d, k) == SelectSeq(d, LAMBDA e : e[1] # k)

-----------------------------------------------------------------------------
(* The remote service's view of credentials. *)

\* the login a token authenticates as, "" when get_user() raises for it
LoginOf(t) ==
    CASE t = "ta" -> "alice"
      [] t = "tb" -> "Bob"
      [] OTHER -> ""

NoClient == [id |-> 0, token |-> "", login |-> ""]

\* GitHubAPI.__init__: the token the client holds, "" when ValueError is raised
EffectiveToken(token, env) == IF token # "" THEN token ELSE env

\* GitHubAPI(token=...) followed by client.get_user().login: TRUE when
\* neither raises
Authenticates(token, env) == LoginOf(EffectiveToken(token, env)) # ""

\* the client object then constructed, the id-th of the run
NewClient(id, token, env) ==
    [id |-> id, token |-> EffectiveToken(token, env),
     login |-> LoginOf(EffectiveToken(token, env))]

-----------------------------------------------------------------------------
(* Token specifications. *)

Bare(t) == [colon |-> FALSE, owner |-> "", token |-> t]
Pair(o, t) == [colon |-> TRUE, owner |-> o, token |-> t]

\* what may stand left of ':' in a segment
RawOwners == {"alice", " Bob", "carol", "_default"}
\* what may stand as a token in a segment
RawTokens == {"", "ta", " tb ", "bad"}

Segments == {Bare(t) : t \in RawTokens}
            \cup {Pair(o, t) : o \in RawOwners, t \in RawTokens}

SeqsUpTo(S, n) == UNION {[1..k -> S] : k \in 1..n}

TokenStrs == SeqsUpTo(Segments, MaxSegs)

\* parse_token_map, the loop over token_str.split(',') from segment i on
RECURSIVE ParseFrom(_, _, _)
ParseFrom(segs, i, tokens) ==
    IF i > Len(segs) THEN tokens
    ELSE ParseFrom(segs, i + 1,
            IF segs[i].colon
            THEN DictSet(tokens, Lower(Strip(segs[i].owner)), Strip(segs[i].token))
            ELSE DictSet(tokens, DefaultKey, Strip(segs[i].token)))

parse_token_map(segs) == ParseFrom(segs, 1, <<>>)

-----------------------------------------------------------------------------
(* Command line arguments read by validate_args. *)

\* datetime.now()
Now == 50

\* datetime.strptime(date_str, '%Y-%m-%d'): the datetime, -1 for ValueError
StrptimeDate(s) ==
    CASE s = "2024-01-02" -> 20
      [] s = "2999-01-01" -> 99
      [] OTHER -> -1

\* datetime.strptime(date_str, '%Y-%m-%d %H:%M:%S'): the datetime, -1 for ValueError
StrptimeDateTime(s) ==
    CASE s = "2024-01-02 00:00:00" -> 20
      [] OTHER -> -1

\* parse_date: the first format that parses, -1 when it raises ValueError
parse_date(s) ==
    IF StrptimeDate(s) # -1 THEN StrptimeDate(s)
    ELSE IF StrptimeDateTime(s) # -1 THEN StrptimeDateTime(s)
    ELSE -1

\* the values of --since
SinceArgs == {"2024-01-02", "2024-01-02 00:00:00", "02/01/2024", "2999-01-01"}

\* the values of --ca-bundle, "" when the option is not given
CaBundleArgs == {"", "ca.pem", "missing.pem"}

\* os.path.exists
PathExists(path) == path = "ca.pem"

-----------------------------------------------------------------------------
(* Repositories. *)

\* args.username
Username == "alice"

Repo(full_name, owner, description) ==
    [full_name |-> full_name, owner |-> owner, description |-> description]

\* fetch_repo_by_full_name returned None
NoRepo == Repo("", "", "")

\* the repositories of the remote service
R1 == Repo("alice/r1", "alice", "first")
R2 == Repo("Bob/r2", "Bob", "")
\* carol/r3 was transferred to dave: the service redirects the old name
R3 == Repo("dave/r3", "dave", "")

\* client.get_repo(repo_full_name), when it does not raise
GetRepo(name) ==
    CASE name = "alice/r1" -> R1
      [] name = "Bob/r2" -> R2
      [] OTHER -> R3

\* what fetch_repo_by_full_name may return for a name
RepoResponses(name) == {NoRepo, GetRepo(name)}

\* the segments --repositories may hold between commas
RawRepos == {"", "alice/r1", " Bob/r2", "carol/r3", "norepo"}

\* '/' in repo_full_name
HasSlash(name) == name # "norepo"

\* repo_full_name.split('/', 1)[0]
OwnerPart(name) ==
    CASE name = "alice/r1" -> "alice"
      [] name = "Bob/r2" -> "Bob"
      [] name = "carol/r3" -> "carol"
      [] name = "dave/r3" -> "dave"
      [] OTHER -> name

\* parse_repo_list: the stripped, non-empty segments
parse_repo_list(segs) ==
    LET kept == SelectSeq(segs, LAMBDA r : Strip(r) # "")
    IN [i \in 1..Len(kept) |-> Strip(kept[i])]

\* group_repos_by_owner, the loop over repo_full_names from position i on
RECURSIVE GroupFrom(_, _, _)
GroupFrom(names, i, grouped) ==
    IF i > Len(names) THEN grouped
    ELSE GroupFrom(names, i + 1,
            IF ~HasSlash(names[i]) THEN grouped
            ELSE LET owner == Lower(OwnerPart(names[i]))
                     sofar == IF DictHas(grouped, owner)
                              THEN DictGet(grouped, owner) ELSE <<>>
                 IN DictSet(grouped, owner, Append(sofar, names[i])))

group_repos_by_owner(names) == GroupFrom(names, 1, <<>>)

\* the resolution with the default client preferred to the owner's own
ResolveDefaultFirst(table, owner) ==
    IF DictHas(table, DefaultKey) THEN DictGet(table, DefaultKey)
    ELSE IF DictHas(table, owner) THEN DictGet(table, owner)
    ELSE NoClient

\* apis.get(owner) or default_api, with default_api = apis.get('_default'):
\* NoClient when both are None
Resolve(table, owner) ==
    IF DictHas(table, owner) THEN DictGet(table, owner)
    ELSE IF DictHas(table, DefaultKey) THEN DictGet(table, DefaultKey)
    ELSE NoClient

-----------------------------------------------------------------------------
(* Commits and pull requests. *)

Commit(sha, parents, committer, author, date, total, nfiles) ==
    [sha |-> sha, parents |-> parents, committer |-> committer,
     author |-> author, date |-> date, total |-> total, nfiles |-> nfiles]

\* the commits of the remote service; committer is the committer of the
\* commit, as commit.committer.name gives it ('GitHub' for a commit made on
\* the platform), author is author.login ("" when commit.author is None)
K1 == Commit("s1", 1, "alice", "alice", 30, 10, 30)
K2 == Commit("s2", 1, "GitHub", "alice", 25, 20, 2)
K3 == Commit("s3", 2, "alice", "alice", 40, 4000, 3)
K4 == Commit("s4", 1, "alice", "alice", 35, 30, 31)
K5 == Commit("s5", 1, "mallory", "mallory", 36, 5, 1)
K6 == Commit("s6", 1, "alice", "alice", 10, 5, 1)
\* a pull request merged with the platform's merge button
K7 == Commit("s7", 2, "GitHub", "alice", 45, 8, 1)
\* written by alice and committed by mallory, and the other way round
K8 == Commit("s8", 1, "mallory", "alice", 31, 6, 1)
K9 == Commit("s9", 1, "alice", "mallory", 32, 7, 1)
\* committed by alice, its author not a user of the platform
K10 == Commit("s10", 1, "alice", "", 33, 9, 1)

\* CommitRecord(repo_full_name, commit); via tells the objects of the direct
\* listing from those of a pull request's listing
CommitRecord(repo_full_name, commit, via) ==
    [repo_full_name |-> repo_full_name, commit |-> commit, via |-> via]

\* fetch_repo_commit_records with merge commits dropped whatever the flag
fetch_repo_commit_recordsDropsMerges(repo, raised, listing, include_merge, exclude_pr_merge) ==
    IF raised THEN <<>>
    ELSE LET c1 == SelectSeq(listing, LAMBDA c : c.parents <= 1)
             c2 == IF exclude_pr_merge
                   THEN SelectSeq(c1, LAMBDA c : c.committer # "GitHub")
                   ELSE c1
         IN [i \in 1..Len(c2) |-> CommitRecord(repo.full_name, c2[i], "direct")]

\* fetch_repo_commit_records: listing is what list(repo.get_commits(author=,
\* since=)) returned, unless it raised
fetch_repo_commit_records(repo, raised, listing, include_merge, exclude_pr_merge) ==
    IF raised THEN <<>>
    ELSE LET c1 == IF ~include_merge
                   THEN SelectSeq(listing, LAMBDA c : c.parents <= 1)
                   ELSE listing
             c2 == IF exclude_pr_merge
                   THEN SelectSeq(c1, LAMBDA c : c.committer # "GitHub")
                   ELSE c1
         IN [i \in 1..Len(c2) |-> CommitRecord(repo.full_name, c2[i], "direct")]

PullRequest(number, updated_at, user, base) ==
    [number |-> number, updated_at |-> updated_at, user |-> user, base |-> base]

\* fetch_user_pull_requests_in_repos for one repository: the loop over
\* repo.get_pulls(state='all', sort='updated', direction='desc') from entry i
\* on; the listing raises at entry failAt (0: it does not raise)
RECURSIVE ScanPulls(_, _, _, _, _)
ScanPulls(feed, i, failAt, since, found) ==
    IF i = failAt THEN found
    ELSE IF i > Len(feed) THEN found
    ELSE IF feed[i].updated_at < since THEN found
    ELSE ScanPulls(feed, i + 1, failAt, since,
            IF feed[i].user = Username THEN Append(found, feed[i]) ELSE found)

\* the loop with `continue` in the place of `break` at line 120
RECURSIVE ScanPullsSkipsOld(_, _, _, _, _)
ScanPullsSkipsOld(feed, i, failAt, since, found) ==
    IF i = failAt THEN found
    ELSE IF i > Len(feed) THEN found
    ELSE ScanPullsSkipsOld(feed, i + 1, failAt, since,
            IF feed[i].updated_at >= since /\ feed[i].user = Username
            THEN Append(found, feed[i]) ELSE found)

\* fetch_user_pull_requests_in_repos reading on past an old entry
fetch_user_pull_requestsSkipsOld(feed, failAt, since) ==
    ScanPullsSkipsOld(feed, 1, failAt, since, <<>>)

\* fetch_user_pull_requests_in_repos for one repository
fetch_user_pull_requests(feed, failAt, since) == ScanPulls(feed, 1, failAt, since, <<>>)

\* fetch_user_commit_records_in_pr_after_date: the loop over pr.get_commits()
\* from entry i on; the listing raises at entry failAt (0: it does not raise)
RECURSIVE ScanPrCommits(_, _, _, _, _, _)
ScanPrCommits(pr, listing, i, failAt, since, found) ==
    IF i = failAt THEN found
    ELSE IF i > Len(listing) THEN found
    ELSE ScanPrCommits(pr, listing, i + 1, failAt, since,
            IF /\ listing[i].author # ""
               /\ listing[i].author = Username
               /\ listing[i].date >= since
               /\ listing[i].parents <= 1
            THEN Append(found, CommitRecord(pr.base.full_name, listing[i], "pr"))
            ELSE found)

\* the loop with the committer tested in the place of the author
RECURSIVE ScanPrCommitsByCommitter(_, _, _, _, _, _)
ScanPrCommitsByCommitter(pr, listing, i, failAt, since, found) ==
    IF i = failAt THEN found
    ELSE IF i > Len(listing) THEN found
    ELSE ScanPrCommitsByCommitter(pr, listing, i + 1, failAt, since,
            IF /\ listing[i].committer = Username
               /\ listing[i].date >= since
               /\ listing[i].parents <= 1
            THEN Append(found, CommitRecord(pr.base.full_name, listing[i], "pr"))
            ELSE found)

\* fetch_user_commit_records_in_pr_after_date keeping the commits the user
\* committed
fetch_user_commit_records_in_prByCommitter(pr, listing, failAt, since) ==
    ScanPrCommitsByCommitter(pr, listing, 1, failAt, since, <<>>)

\* fetch_user_commit_records_in_pr_after_date
fetch_user_commit_records_in_pr(pr, listing, failAt, since) ==
    ScanPrCommits(pr, listing, 1, failAt, since, <<>>)

\* the merge with the later record of a SHA replacing the earlier one
RECURSIVE DedupeLastWins(_, _, _)
DedupeLastWins(records, i, unique) ==
    IF i > Len(records) THEN [k \in 1..Len(unique) |-> unique[k][2]]
    ELSE DedupeLastWins(records, i + 1,
            DictSet(unique, records[i].commit.sha, records[i]))

\* the loop with a new SHA put at the head of the result
RECURSIVE DedupeFromPrepends(_, _, _)
DedupeFromPrepends(records, i, unique) ==
    IF i > Len(records) THEN [k \in 1..Len(unique) |-> unique[k][2]]
    ELSE DedupeFromPrepends(records, i + 1,
            IF ~DictHas(unique, records[i].commit.sha)
            THEN <<<<records[i].commit.sha, records[i]>>>> \o unique
            ELSE unique)

\* process_commits_and_prs, lines 349-355: the loop over
\* all_commit_records + all_pr_commit_records from position i on, then
\* list(unique_commit_records.values())
RECURSIVE DedupeFrom(_, _, _)
DedupeFrom(records, i, unique) ==
    IF i > Len(records) THEN [k \in 1..Len(unique) |-> unique[k][2]]
    ELSE DedupeFrom(records, i + 1,
            IF ~DictHas(unique, records[i].commit.sha)
            THEN DictSet(unique, records[i].commit.sha, records[i])
            ELSE unique)

\* the merge with a new SHA put at the head of the result
MergeNewestFirst(direct, via_pr) == DedupeFromPrepends(direct \o via_pr, 1, <<>>)

\* the merge with the PR commits put before the direct commits
MergePrFirst(direct, via_pr) == DedupeFrom(via_pr \o direct, 1, <<>>)

\* the merge of the direct commit list and the PR commit list
Merge(direct, via_pr) == DedupeFrom(direct \o via_pr, 1, <<>>)

-----------------------------------------------------------------------------
(* Actions of the credential router. *)

ExitWith(code) ==
    /\ pc' = "exited"
    /\ exitCode' = code

\* main.py:171, token_map = parse_token_map(token_str)
ParseTokenMap ==
    /\ pc = "parse_token_map"
    /\ token_map' = parse_token_map(token_str)
    /\ parsed_map' = token_map'
    /\ pc' = "init_default"
    /\ UNCHANGED <<exitCode, env_token, token_str, apis, default_api,
                   owner_idx, next_id, notRouter>>
    /\ UNCHANGED <<inVars, guiVars>>

\* InitDefault with a failing default token skipped like a failing owner token
InitDefaultSkipsFailure ==
    /\ pc = "init_default"
    /\ LET default_token ==
               IF DictHas(token_map, DefaultKey)
               THEN DictGet(token_map, DefaultKey) ELSE ""
       IN /\ token_map' = DictDel(token_map, DefaultKey)
          /\ IF default_token # "" /\ Authenticates(default_token, env_token)
             THEN /\ default_api' = NewClient(next_id + 1, default_token, env_token)
                  /\ next_id' = next_id + 1
                  /\ apis' = DictSet(apis, Lower(default_api'.login), default_api')
             ELSE UNCHANGED <<apis, default_api, next_id>>
    /\ pc' = "init_owner"
    /\ owner_idx' = 1
    /\ UNCHANGED <<exitCode, env_token, token_str, parsed_map, notRouter>>
    /\ UNCHANGED <<inVars, guiVars>>

\* initialize_apis, lines 212-224: the default token
InitDefault ==
    /\ pc = "init_default"
    /\ LET default_token ==
               IF DictHas(token_map, DefaultKey)
               THEN DictGet(token_map, DefaultKey) ELSE ""
       IN /\ token_map' = DictDel(token_map, DefaultKey)
          /\ IF default_token = ""
             THEN /\ pc' = "init_owner"
                  /\ UNCHANGED <<exitCode, apis, default_api, next_id>>
             ELSE IF Authenticates(default_token, env_token)
             THEN /\ default_api' = NewClient(next_id + 1, default_token, env_token)
                  /\ next_id' = next_id + 1
                  /\ apis' = DictSet(apis, Lower(default_api'.login), default_api')
                  /\ pc' = "init_owner"
                  /\ UNCHANGED exitCode
             ELSE /\ ExitWith(1)
                  /\ UNCHANGED <<apis, default_api, next_id>>
    /\ owner_idx' = 1
    /\ UNCHANGED <<env_token, token_str, parsed_map, notRouter>>
    /\ UNCHANGED <<inVars, guiVars>>

\* InitOwner without the test of line 227: the owner's token replaces the
\* client registered for the login of the default token
InitOwnerOverwrites ==
    /\ pc = "init_owner"
    /\ owner_idx <= Len(token_map)
    /\ LET owner == token_map[owner_idx][1]
           token == token_map[owner_idx][2]
       IN IF Authenticates(token, env_token)
          THEN /\ apis' = DictSet(apis, owner, NewClient(next_id + 1, token, env_token))
               /\ next_id' = next_id + 1
          ELSE UNCHANGED <<apis, next_id>>
    /\ owner_idx' = owner_idx + 1
    /\ UNCHANGED <<pc, exitCode, env_token, token_str, token_map, default_api,
                   parsed_map, notRouter>>
    /\ UNCHANGED <<inVars, guiVars>>

\* InitOwner with the sys.exit(1) of line 241 live
InitOwnerExitsOnFailure ==
    /\ pc = "init_owner"
    /\ owner_idx <= Len(token_map)
    /\ LET owner == token_map[owner_idx][1]
           token == token_map[owner_idx][2]
       IN IF DictHas(apis, owner)
          THEN UNCHANGED <<pc, exitCode, apis, next_id>>
          ELSE IF Authenticates(token, env_token)
          THEN /\ apis' = DictSet(apis, owner, NewClient(next_id + 1, token, env_token))
               /\ next_id' = next_id + 1
               /\ UNCHANGED <<pc, exitCode>>
          ELSE /\ ExitWith(1)
               /\ UNCHANGED <<apis, next_id>>
    /\ owner_idx' = owner_idx + 1
    /\ UNCHANGED <<env_token, token_str, token_map, default_api, parsed_map,
                   notRouter>>
    /\ UNCHANGED <<inVars, guiVars>>

\* initialize_apis, lines 226-241: one turn of the loop over token_map.items()
InitOwner ==
    /\ pc = "init_owner"
    /\ owner_idx <= Len(token_map)
    /\ LET owner == token_map[owner_idx][1]
           token == token_map[owner_idx][2]
       IN IF DictHas(apis, owner)
          THEN UNCHANGED <<apis, next_id>>
          ELSE IF Authenticates(token, env_token)
          THEN /\ apis' = DictSet(apis, owner, NewClient(next_id + 1, token, env_token))
               /\ next_id' = next_id + 1
          ELSE UNCHANGED <<apis, next_id>>
    /\ owner_idx' = owner_idx + 1
    /\ UNCHANGED <<pc, exitCode, env_token, token_str, token_map, default_api,
                   parsed_map, notRouter>>
    /\ UNCHANGED <<inVars, guiVars>>

\* initialize_apis, lines 245-248: the reference under '_default', and return
InitFinish ==
    /\ pc = "init_owner"
    /\ owner_idx > Len(token_map)
    /\ apis' = IF default_api # NoClient /\ ~DictHas(apis, DefaultKey)
               THEN DictSet(apis, DefaultKey, default_api)
               ELSE apis
    /\ pc' = "check_apis"
    /\ UNCHANGED <<exitCode, env_token, token_str, token_map, default_api,
                   owner_idx, next_id, parsed_map, notRouter>>
    /\ UNCHANGED <<inVars, guiVars>>

-----------------------------------------------------------------------------
(* main, up to the credential router. *)

\* the values of the environment variable GITHUB_TOKEN, "" when unset
EnvTokens == {"", "ta"}

\* the string "", which split(',') turns into one empty segment
EmptyStr == <<Bare("")>>

\* the segments of the values of --token the whole pipeline is run on
MainSegments == {Bare("ta"), Bare("bad"), Pair("alice", "ta"),
                 Pair(" Bob", " tb "), Pair("carol", "bad")}

\* the values of --token, EmptyStr when the option is not given
TokenArgs == {EmptyStr} \cup SeqsUpTo(MainSegments, MaxMainSegs)

\* validate_args without the check that the CA bundle file exists
ValidateArgsSkipsBundleCheck ==
    /\ pc = "validate_args"
    /\ \E s \in SinceArgs, nv \in BOOLEAN, ca \in CaBundleArgs :
          /\ since_date' = parse_date(s)
          /\ no_verify_ssl' = nv
          /\ ca_bundle' = ca
          /\ IF parse_date(s) = -1 \/ parse_date(s) > Now
             THEN ExitWith(1) /\ UNCHANGED ssl_verify
             ELSE /\ ssl_verify' = IF nv THEN "false" ELSE IF ca # "" THEN ca ELSE "true"
                  /\ pc' = "read_token"
                  /\ UNCHANGED exitCode
    /\ UNCHANGED <<routerVars, repoVars, aggVars, all_unique_commit_records,
                   outVars, histVars>>
    /\ UNCHANGED <<inVars, guiVars>>

\* validate_args (main.py:88-118), called at main.py:164
ValidateArgs ==
    /\ pc = "validate_args"
    /\ \E s \in SinceArgs, nv \in BOOLEAN, ca \in CaBundleArgs :
          /\ since_date' = parse_date(s)
          /\ no_verify_ssl' = nv
          /\ ca_bundle' = ca
          /\ IF parse_date(s) = -1 \/ parse_date(s) > Now
             THEN ExitWith(1) /\ UNCHANGED ssl_verify
             ELSE IF nv
             THEN /\ ssl_verify' = "false"
                  /\ pc' = "read_token"
                  /\ UNCHANGED exitCode
             ELSE IF ca # ""
             THEN IF ~PathExists(ca)
                  THEN ExitWith(1) /\ UNCHANGED ssl_verify
                  ELSE /\ ssl_verify' = ca
                       /\ pc' = "read_token"
                       /\ UNCHANGED exitCode
             ELSE /\ ssl_verify' = "true"
                  /\ pc' = "read_token"
                  /\ UNCHANGED exitCode
    /\ UNCHANGED <<routerVars, repoVars, aggVars, all_unique_commit_records,
                   outVars, histVars>>
    /\ UNCHANGED <<inVars, guiVars>>

\* main.py:167-170, token_str = args.token or os.environ.get('GITHUB_TOKEN', '')
\* The environment variable is read where args.token is empty; no token of
\* TokenArgs is empty, so that GitHubAPI.__init__ does not read it.
ReadToken ==
    /\ pc = "read_token"
    /\ \E t \in TokenArgs, e \in EnvTokens :
          /\ t # EmptyStr => e = ""
          /\ env_token' = e
          /\ token_str' = IF t # EmptyStr THEN t ELSE <<Bare(e)>>
    /\ IF token_str' = EmptyStr
       THEN ExitWith(1)
       ELSE pc' = "parse_token_map" /\ UNCHANGED exitCode
    /\ no_verify_ssl' = FALSE
    /\ ca_bundle' = ""
    /\ UNCHANGED <<since_date, ssl_verify, token_map, apis, default_api,
                   owner_idx, next_id, parsed_map, repoVars, aggVars,
                   all_unique_commit_records, outVars, histVars>>
    /\ UNCHANGED <<inVars, guiVars>>

\* main.py:175-177
CheckApis ==
    /\ pc = "check_apis"
    /\ IF apis = <<>>
       THEN /\ ExitWith(1)
            /\ UNCHANGED <<routerVars, argVars>>
       ELSE /\ pc' = "parse_repos"
            /\ env_token' = ""
            /\ token_str' = <<>>
            /\ token_map' = <<>>
            /\ parsed_map' = <<>>
            /\ default_api' = NoClient
            /\ owner_idx' = 0
            /\ next_id' = 0
            /\ ssl_verify' = "true"
            /\ UNCHANGED <<exitCode, apis, since_date, no_verify_ssl, ca_bundle>>
    /\ UNCHANGED <<repoVars, aggVars, all_unique_commit_records, outVars,
                   histVars>>
    /\ UNCHANGED <<inVars, guiVars>>

-----------------------------------------------------------------------------
(* main: the repository list, the metadata file, fetch_repositories. *)

\* the values of --repositories, as comma separated segments
RepoArgs == SeqsUpTo(RawRepos, MaxRepos)

\* main.py:180-187
ParseRepos ==
    /\ pc = "parse_repos"
    /\ \E segs \in RepoArgs :
          /\ repo_full_names' = parse_repo_list(segs)
          /\ IF repo_full_names' = <<>>
             THEN ExitWith(1) /\ UNCHANGED repos_by_owner
             ELSE /\ repos_by_owner' = group_repos_by_owner(repo_full_names')
                  /\ pc' = "save_metadata"
                  /\ UNCHANGED exitCode
    /\ UNCHANGED <<fr_idx, repos, argVars, routerVars, aggVars,
                   all_unique_commit_records, outVars, histVars>>
    /\ UNCHANGED <<inVars, guiVars>>

MetadataFile == <<"metadata.json">>

\* main.py:189-193 and save_metadata: the write raises or not, and a write
\* that raises is logged
SaveMetadata ==
    /\ pc = "save_metadata"
    /\ \E written \in BOOLEAN :
          IF written
          THEN /\ files' = DictSet(files, MetadataFile,
                              [username |-> Username,
                               repositories |-> repo_full_names,
                               since |-> since_date])
               /\ UNCHANGED faults
          ELSE /\ faults' = faults \cup {<<"write", MetadataFile>>}
               /\ UNCHANGED files
    /\ pc' = "fetch_repositories"
    /\ fr_idx' = 1
    /\ UNCHANGED <<exitCode, repo_full_names, repos_by_owner, repos, argVars,
                   routerVars, aggVars, all_unique_commit_records, diff_idx,
                   limits, report_formats, calls>>
    /\ UNCHANGED <<inVars, guiVars>>

Call(op, target, client, response) ==
    [op |-> op, target |-> target, client |-> client, response |-> response]

\* the loop body with an owner without a client passed over
FetchReposOwnerSkipsOwner ==
    /\ pc = "fetch_repositories"
    /\ fr_idx <= Len(repos_by_owner)
    /\ LET owner == repos_by_owner[fr_idx][1]
           owner_repos == repos_by_owner[fr_idx][2]
           api == Resolve(apis, owner)
       IN IF api = NoClient
          THEN UNCHANGED <<ctlVars, repos, calls>>
          ELSE \E resp \in [1..Len(owner_repos) -> {NoRepo, R1, R2, R3}] :
                  /\ \A i \in 1..Len(owner_repos) :
                        resp[i] \in RepoResponses(owner_repos[i])
                  /\ LET got == SelectSeq([i \in 1..Len(owner_repos) |-> resp[i]],
                                          LAMBDA r : r # NoRepo)
                     IN repos' = repos \o got
                  /\ calls' = calls \cup
                        {Call("get_repo", owner_repos[i], api, resp[i]) :
                            i \in 1..Len(owner_repos)}
                  /\ UNCHANGED ctlVars
    /\ fr_idx' = fr_idx + 1
    /\ UNCHANGED <<repo_full_names, repos_by_owner, argVars, routerVars, aggVars,
                   all_unique_commit_records, outVars, faults>>
    /\ UNCHANGED <<inVars, guiVars>>

\* fetch_repositories, lines 264-279: one turn of the loop over
\* repos_by_owner.items(), with the loop over the owner's repositories
FetchReposOwner ==
    /\ pc = "fetch_repositories"
    /\ fr_idx <= Len(repos_by_owner)
    /\ LET owner == repos_by_owner[fr_idx][1]
           owner_repos == repos_by_owner[fr_idx][2]
           api == Resolve(apis, owner)
       IN IF api = NoClient
          THEN ExitWith(1) /\ UNCHANGED <<repos, calls>>
          ELSE \E resp \in [1..Len(owner_repos) -> {NoRepo, R1, R2, R3}] :
                  /\ \A i \in 1..Len(owner_repos) :
                        resp[i] \in RepoResponses(owner_repos[i])
                  /\ LET got == SelectSeq([i \in 1..Len(owner_repos) |-> resp[i]],
                                          LAMBDA r : r # NoRepo)
                     IN repos' = repos \o got
                  /\ calls' = calls \cup
                        {Call("get_repo", owner_repos[i], api, resp[i]) :
                            i \in 1..Len(owner_repos)}
                  /\ UNCHANGED ctlVars
    /\ fr_idx' = fr_idx + 1
    /\ UNCHANGED <<repo_full_names, repos_by_owner, argVars, routerVars, aggVars,
                   all_unique_commit_records, outVars, faults>>
    /\ UNCHANGED <<inVars, guiVars>>

\* the return of fetch_repositories with one failed repository made fatal
FetchReposDoneAbortsOnFailure ==
    /\ pc = "fetch_repositories"
    /\ fr_idx > Len(repos_by_owner)
    /\ IF repos = <<>> \/ \E c \in calls : c.op = "get_repo" /\ c.response = NoRepo
       THEN ExitWith(1) /\ UNCHANGED <<fetch_pr_commits, include_merge_commits>>
       ELSE /\ fetch_pr_commits' \in BOOLEAN
            /\ include_merge_commits' \in BOOLEAN
            /\ pc' = "process"
            /\ UNCHANGED exitCode
    /\ proc_idx' = 1
    /\ pr_idx' = 1
    /\ UNCHANGED <<processed_repo_names, all_commit_records, all_pull_requests,
                   processed_pr_numbers, all_pr_commit_records, argVars,
                   routerVars, repoVars, all_unique_commit_records, outVars,
                   histVars>>
    /\ UNCHANGED <<inVars, guiVars>>

\* fetch_repositories returns; main.py:197-204 up to the call of
\* process_commits_and_prs
FetchReposDone ==
    /\ pc = "fetch_repositories"
    /\ fr_idx > Len(repos_by_owner)
    /\ IF repos = <<>>
       THEN ExitWith(1) /\ UNCHANGED <<fetch_pr_commits, include_merge_commits>>
       ELSE /\ fetch_pr_commits' \in BOOLEAN
            /\ include_merge_commits' \in BOOLEAN
            /\ pc' = "process"
            /\ UNCHANGED exitCode
    /\ proc_idx' = 1
    /\ pr_idx' = 1
    /\ UNCHANGED <<processed_repo_names, all_commit_records, all_pull_requests,
                   processed_pr_numbers, all_pr_commit_records, argVars,
                   routerVars, repoVars, all_unique_commit_records, outVars,
                   histVars>>
    /\ UNCHANGED <<inVars, guiVars>>

-----------------------------------------------------------------------------
(* process_commits_and_prs. *)

\* what list(repo.get_commits(author=username, since=since_date)) may return
CommitListings == {<<>>, <<K3, K1, K2>>}

\* what repo.get_pulls(state='all', sort='updated', direction='desc') may yield
PullFeeds(repo) ==
    {<<>>,
     <<PullRequest(1, 45, "alice", repo), PullRequest(2, 44, "alice", R3),
       PullRequest(3, 43, "mallory", repo), PullRequest(4, 10, "alice", repo),
       PullRequest(5, 46, "alice", repo)>>}

\* what pr.get_commits() may yield
PrCommitListings == {<<>>, <<K1, K5, K3, K6, K4>>}

\* the entries at which a paginated listing may raise, 0 when it does not
FailPoints(listing) ==
    {k \in 0..MaxFailAt : k <= Len(listing)}

\* get_api_for_repo (lines 301-307): the client, NoClient where it exits
get_api_for_repo(repo) == Resolve(apis, Lower(repo.owner))

\* the loop body with exclude_pr_merge_commits left at its default
ProcessRepoKeepsPrMerges ==
    /\ pc = "process"
    /\ proc_idx <= Len(repos)
    /\ LET repo == repos[proc_idx]
           api == get_api_for_repo(repo)
       IN IF repo.full_name \in processed_repo_names
          THEN UNCHANGED <<ctlVars, processed_repo_names, all_commit_records,
                           all_pull_requests, calls>>
          ELSE IF api = NoClient
          THEN /\ ExitWith(1)
               /\ processed_repo_names' = processed_repo_names \cup {repo.full_name}
               /\ UNCHANGED <<all_commit_records, all_pull_requests, calls>>
          ELSE \E raised \in BOOLEAN, listing \in CommitListings,
                  feed \in PullFeeds(repo) :
               \E failAt \in FailPoints(feed) :
                  /\ raised => listing = <<>>
                  /\ fetch_pr_commits \/ (feed = <<>> /\ failAt = 0)
                  /\ processed_repo_names' = processed_repo_names \cup {repo.full_name}
                  /\ all_commit_records' = all_commit_records \o
                        fetch_repo_commit_records(repo, raised, listing,
                            include_merge_commits, FALSE)
                  /\ all_pull_requests' =
                        IF fetch_pr_commits
                        THEN all_pull_requests \o
                                fetch_user_pull_requests(feed, failAt, since_date)
                        ELSE all_pull_requests
                  /\ calls' = calls
                        \cup {Call("get_commits", repo.full_name, api,
                                   <<raised, listing>>)}
                        \cup IF fetch_pr_commits
                             THEN {Call("get_pulls", repo.full_name, api,
                                        <<feed, failAt>>)}
                             ELSE {}
                  /\ UNCHANGED ctlVars
    /\ proc_idx' = proc_idx + 1
    /\ UNCHANGED <<fetch_pr_commits, include_merge_commits, pr_idx,
                   processed_pr_numbers, all_pr_commit_records, argVars,
                   routerVars, repoVars, all_unique_commit_records, outVars,
                   faults>>
    /\ UNCHANGED <<inVars, guiVars>>

\* lines 313-330: one turn of the loop over repos
ProcessRepo ==
    /\ pc = "process"
    /\ proc_idx <= Len(repos)
    /\ LET repo == repos[proc_idx]
           api == get_api_for_repo(repo)
       IN IF repo.full_name \in processed_repo_names
          THEN UNCHANGED <<ctlVars, processed_repo_names, all_commit_records,
                           all_pull_requests, calls>>
          ELSE IF api = NoClient
          THEN /\ ExitWith(1)
               /\ processed_repo_names' = processed_repo_names \cup {repo.full_name}
               /\ UNCHANGED <<all_commit_records, all_pull_requests, calls>>
          ELSE \E raised \in BOOLEAN, listing \in CommitListings,
                  feed \in PullFeeds(repo) :
               \E failAt \in FailPoints(feed) :
                  /\ raised => listing = <<>>
                  /\ fetch_pr_commits \/ (feed = <<>> /\ failAt = 0)
                  /\ processed_repo_names' = processed_repo_names \cup {repo.full_name}
                  /\ all_commit_records' = all_commit_records \o
                        fetch_repo_commit_records(repo, raised, listing,
                            include_merge_commits, fetch_pr_commits)
                  /\ all_pull_requests' =
                        IF fetch_pr_commits
                        THEN all_pull_requests \o
                                fetch_user_pull_requests(feed, failAt, since_date)
                        ELSE all_pull_requests
                  /\ calls' = calls
                        \cup {Call("get_commits", repo.full_name, api,
                                   <<raised, listing>>)}
                        \cup IF fetch_pr_commits
                             THEN {Call("get_pulls", repo.full_name, api,
                                        <<feed, failAt>>)}
                             ELSE {}
                  /\ UNCHANGED ctlVars
    /\ proc_idx' = proc_idx + 1
    /\ UNCHANGED <<fetch_pr_commits, include_merge_commits, pr_idx,
                   processed_pr_numbers, all_pr_commit_records, argVars,
                   routerVars, repoVars, all_unique_commit_records, outVars,
                   faults>>
    /\ UNCHANGED <<inVars, guiVars>>

\* the loop body without the test of line 339: every entry is fetched
ProcessPREveryEntry ==
    /\ pc = "process"
    /\ proc_idx > Len(repos)
    /\ fetch_pr_commits
    /\ pr_idx <= Len(all_pull_requests)
    /\ LET pr == all_pull_requests[pr_idx]
           pr_key == <<pr.base.full_name, pr.number>>
           pr_api == get_api_for_repo(pr.base)
       IN IF pr_api = NoClient
          THEN /\ ExitWith(1)
               /\ processed_pr_numbers' = processed_pr_numbers \cup {pr_key}
               /\ UNCHANGED <<all_pr_commit_records, calls>>
          ELSE \E listing \in PrCommitListings :
               \E failAt \in FailPoints(listing) :
                  /\ processed_pr_numbers' = processed_pr_numbers \cup {pr_key}
                  /\ all_pr_commit_records' = all_pr_commit_records \o
                        fetch_user_commit_records_in_pr(pr, listing, failAt, since_date)
                  /\ calls' = calls
                        \cup {Call("get_pr_commits", pr_key, pr_api, <<listing, failAt>>)}
                  /\ UNCHANGED ctlVars
    /\ pr_idx' = pr_idx + 1
    /\ UNCHANGED <<fetch_pr_commits, include_merge_commits, proc_idx,
                   processed_repo_names, all_commit_records, all_pull_requests,
                   argVars, routerVars, repoVars, all_unique_commit_records,
                   outVars, faults>>
    /\ UNCHANGED <<inVars, guiVars>>

\* lines 333-346: one turn of the loop over all_pull_requests
ProcessPR ==
    /\ pc = "process"
    /\ proc_idx > Len(repos)
    /\ fetch_pr_commits
    /\ pr_idx <= Len(all_pull_requests)
    /\ LET pr == all_pull_requests[pr_idx]
           pr_key == <<pr.base.full_name, pr.number>>
           pr_api == get_api_for_repo(pr.base)
       IN IF pr_key \in processed_pr_numbers
          THEN UNCHANGED <<ctlVars, processed_pr_numbers, all_pr_commit_records,
                           calls>>
          ELSE IF pr_api = NoClient
          THEN /\ ExitWith(1)
               /\ processed_pr_numbers' = processed_pr_numbers \cup {pr_key}
               /\ UNCHANGED <<all_pr_commit_records, calls>>
          ELSE \E listing \in PrCommitListings :
               \E failAt \in FailPoints(listing) :
                  /\ processed_pr_numbers' = processed_pr_numbers \cup {pr_key}
                  /\ all_pr_commit_records' = all_pr_commit_records \o
                        fetch_user_commit_records_in_pr(pr, listing, failAt, since_date)
                  /\ calls' = calls
                        \cup {Call("get_pr_commits", pr_key, pr_api, <<listing, failAt>>)}
                  /\ UNCHANGED ctlVars
    /\ pr_idx' = pr_idx + 1
    /\ UNCHANGED <<fetch_pr_commits, include_merge_commits, proc_idx,
                   processed_repo_names, all_commit_records, all_pull_requests,
                   argVars, routerVars, repoVars, all_unique_commit_records,
                   outVars, faults>>
    /\ UNCHANGED <<inVars, guiVars>>

\* lines 348-358: the merge, and the return to main.py:202
Dedupe ==
    /\ pc = "process"
    /\ proc_idx > Len(repos)
    /\ ~fetch_pr_commits \/ pr_idx > Len(all_pull_requests)
    /\ all_unique_commit_records' = Merge(all_commit_records, all_pr_commit_records)
    /\ pc' = "check_empty"
    /\ UNCHANGED <<exitCode, argVars, routerVars, repoVars, aggVars, outVars,
                   histVars>>
    /\ UNCHANGED <<inVars, guiVars>>

\* main.py:206-208 without the early return on an empty list
CheckEmptyGoesOn ==
    /\ pc = "check_empty"
    /\ pc' = "generate_reports"
    /\ proc_idx' = 0
    /\ processed_repo_names' = {}
    /\ all_commit_records' = <<>>
    /\ all_pull_requests' = <<>>
    /\ pr_idx' = 0
    /\ processed_pr_numbers' = {}
    /\ all_pr_commit_records' = <<>>
    /\ calls' = {}
    /\ UNCHANGED <<exitCode, fetch_pr_commits, include_merge_commits, argVars,
                   routerVars, repoVars, all_unique_commit_records, outVars, faults>>
    /\ UNCHANGED <<inVars, guiVars>>

\* main.py:206-208
CheckEmpty ==
    /\ pc = "check_empty"
    /\ IF all_unique_commit_records = <<>>
       THEN ExitWith(0)
       ELSE pc' = "generate_reports" /\ UNCHANGED exitCode
    /\ proc_idx' = 0
    /\ processed_repo_names' = {}
    /\ all_commit_records' = <<>>
    /\ all_pull_requests' = <<>>
    /\ pr_idx' = 0
    /\ processed_pr_numbers' = {}
    /\ all_pr_commit_records' = <<>>
    /\ calls' = {}
    /\ UNCHANGED <<fetch_pr_commits, include_merge_commits, argVars, routerVars,
                   repoVars, all_unique_commit_records, outVars, faults>>
    /\ UNCHANGED <<inVars, guiVars>>

-----------------------------------------------------------------------------
(* ReportGenerator. *)

\* the values of --report-formats
Formats == {"text", "markdown", "json"}
FormatArgs == (SUBSET Formats) \ {{}}

\* the default of --commit-fields, and its choices
CommitFields == {"date", "url", "message"}
AllCommitFields == {"date", "url", "message", "sha", "stats", "files_changed"}

\* no listing is handed to a client operation on its own
NoRemote == [op |-> "none", raised |-> FALSE, listing |-> <<>>, failAt |-> 0]

\* _build_commit_data: the dict of the chosen fields of a commit
\* _build_commit_data with the statistics put in whenever the SHA is asked for
build_commit_dataStatsWithSha(commit, fields) ==
    LET d1 == IF "date" \in fields THEN <<<<"date", commit.date>>>> ELSE <<>>
        d2 == IF "url" \in fields THEN Append(d1, <<"url", <<"html_url", commit.sha>>>>) ELSE d1
        d3 == IF "message" \in fields THEN Append(d2, <<"message", <<"message", commit.sha>>>>) ELSE d2
        d4 == IF "sha" \in fields THEN Append(d3, <<"sha", commit.sha>>) ELSE d3
        d5 == IF "sha" \in fields THEN Append(d4, <<"stats", commit.total>>) ELSE d4
        d6 == IF "files_changed" \in fields THEN Append(d5, <<"files_changed", commit.nfiles>>) ELSE d5
    IN d6

\* _build_commit_data
build_commit_data(commit, fields) ==
    LET d1 == IF "date" \in fields THEN <<<<"date", commit.date>>>> ELSE <<>>
        d2 == IF "url" \in fields THEN Append(d1, <<"url", <<"html_url", commit.sha>>>>) ELSE d1
        d3 == IF "message" \in fields THEN Append(d2, <<"message", <<"message", commit.sha>>>>) ELSE d2
        d4 == IF "sha" \in fields THEN Append(d3, <<"sha", commit.sha>>) ELSE d3
        d5 == IF "stats" \in fields THEN Append(d4, <<"stats", commit.total>>) ELSE d4
        d6 == IF "files_changed" \in fields THEN Append(d5, <<"files_changed", commit.nfiles>>) ELSE d5
    IN d6

\* generate_reports, lines 56-58: commits_by_repo_full_name, from record i on
RECURSIVE GroupFromRecord(_, _, _)
GroupFromRecord(records, i, by_repo) ==
    IF i > Len(records) THEN by_repo
    ELSE LET name == records[i].repo_full_name
             sofar == IF DictHas(by_repo, name) THEN DictGet(by_repo, name) ELSE <<>>
         IN GroupFromRecord(records, i + 1,
                DictSet(by_repo, name, Append(sofar, records[i].commit)))

\* commits with commit c put before the first commit dated before it: the
\* sort with reverse=True
InsertByDateNewestFirst(commits, c) ==
    LET after == {k \in 1..Len(commits) : commits[k].date >= c.date}
        n == IF after = {} THEN 0 ELSE CHOOSE k \in after : \A m \in after : m <= k
    IN SubSeq(commits, 1, n) \o <<c>> \o SubSeq(commits, n + 1, Len(commits))

\* commits with commit c put after the last commit not dated after it
InsertByDate(commits, c) ==
    LET before == {k \in 1..Len(commits) : commits[k].date <= c.date}
        n == IF before = {} THEN 0 ELSE CHOOSE k \in before : \A m \in before : m <= k
    IN SubSeq(commits, 1, n) \o <<c>> \o SubSeq(commits, n + 1, Len(commits))

\* list.sort(key=lambda c: c.commit.author.date): stable, oldest first
RECURSIVE SortByDate(_)
SortByDate(commits) ==
    IF commits = <<>> THEN <<>>
    ELSE InsertByDate(SortByDate(SubSeq(commits, 1, Len(commits) - 1)),
                      commits[Len(commits)])

\* generate_reports, lines 56-62
GroupAndSort(records) ==
    LET by_repo == GroupFromRecord(records, 1, <<>>)
    IN [k \in 1..Len(by_repo) |-> <<by_repo[k][1], SortByDate(by_repo[k][2])>>]

\* the place of a repository full name in Python's string order
NameRank(name) ==
    CASE name = "Bob/r2" -> 1
      [] name = "alice/r1" -> 2
      [] OTHER -> 3

\* sorted(all_repos_full_names): the groups in the order of their names
RECURSIVE SortedGroups(_)
SortedGroups(by_repo) ==
    IF by_repo = <<>> THEN <<>>
    ELSE LET least == CHOOSE k \in 1..Len(by_repo) :
                         \A m \in 1..Len(by_repo) :
                            NameRank(by_repo[k][1]) <= NameRank(by_repo[m][1])
         IN <<by_repo[least]>> \o
            SortedGroups(SelectSeq(by_repo, LAMBDA g : g[1] # by_repo[least][1]))

\* main.py:211, repo_descriptions
repo_descriptions(rs) ==
    {<<rs[i].full_name, rs[i].description>> :
        i \in {k \in 1..Len(rs) : rs[k].description # ""}}

Section(group, descriptions, fields) ==
    [name |-> group[1],
     description |-> {d[2] : d \in {e \in descriptions : e[1] = group[1]}},
     commits |-> [k \in 1..Len(group[2]) |-> build_commit_data(group[2][k], fields)]]

\* _generate_markdown_report and _generate_text_report: a heading for every
\* repository in the order of the names, then its commits
SortedReport(by_repo, descriptions, fields) ==
    LET groups == SortedGroups(by_repo)
    IN [k \in 1..Len(groups) |-> Section(groups[k], descriptions, fields)]

\* _generate_json_report: an object for every repository in the order of the dict
JsonReport(by_repo, descriptions, fields) ==
    [k \in 1..Len(by_repo) |-> Section(by_repo[k], descriptions, fields)]

ReportFile(format) ==
    CASE format = "markdown" -> <<"report.md">>
      [] format = "text" -> <<"report.txt">>
      [] OTHER -> <<"report.json">>

\* main.py:210-219 and generate_reports
GenerateReports ==
    /\ pc = "generate_reports"
    /\ report_formats' \in FormatArgs
    /\ LET by_repo == GroupAndSort(all_unique_commit_records)
           descriptions == repo_descriptions(repos)
           f1 == IF "markdown" \in report_formats'
                 THEN DictSet(files, ReportFile("markdown"),
                              SortedReport(by_repo, descriptions, commit_fields))
                 ELSE files
           f2 == IF "text" \in report_formats'
                 THEN DictSet(f1, ReportFile("text"),
                              SortedReport(by_repo, descriptions, commit_fields))
                 ELSE f1
           f3 == IF "json" \in report_formats'
                 THEN DictSet(f2, ReportFile("json"),
                              JsonReport(by_repo, descriptions, commit_fields))
                 ELSE f2
       IN files' = f3
    /\ pc' = "diff_init"
    /\ UNCHANGED <<exitCode, argVars, routerVars, repoVars, aggVars,
                   all_unique_commit_records, diff_idx, limits, histVars>>
    /\ UNCHANGED <<inVars, guiVars>>

-----------------------------------------------------------------------------
(* DiffGenerator. *)

\* the values of --limit-download-diffs, <<LIMIT_FILES, LIMIT_LINES_CHANGED>>
LimitArgs == {<<30, 3000>>, <<2, 20>>}

DiffFile(sha) == <<"commits", sha>>

\* main.py:222-226 and DiffGenerator.__init__
DiffInit ==
    /\ pc = "diff_init"
    /\ limits' \in LimitArgs
    /\ diff_idx' = 1
    /\ pc' = "save_diffs"
    /\ UNCHANGED <<exitCode, argVars, routerVars, repoVars, aggVars,
                   all_unique_commit_records, files, report_formats, histVars>>
    /\ UNCHANGED <<inVars, guiVars>>

\* the thresholds with a commit at a ceiling skipped too
PassesLimitsBelow(commit, lim) ==
    /\ ~(commit.total >= lim[2])
    /\ ~(commit.nfiles >= lim[1])

\* save_commit_diffs, lines 45-71: the commit passes both thresholds
PassesLimits(commit, lim) ==
    /\ ~(commit.total > lim[2])
    /\ ~(commit.nfiles > lim[1])

\* save_commit_diffs, lines 43-93: one turn of the loop over commit_records.
\* Reading the statistics or the files of the commit from the remote service
\* may raise, outside any try; the write of the file may raise, inside one.
SaveDiff ==
    /\ pc = "save_diffs"
    /\ diff_idx <= Len(all_unique_commit_records)
    /\ LET record == all_unique_commit_records[diff_idx]
       IN \E outcome \in {"ok", "read raises", "write raises"} :
            IF outcome = "read raises"
            THEN /\ ExitWith(1)
                 /\ faults' = faults \cup {<<"read", DiffFile(record.commit.sha)>>}
                 /\ UNCHANGED files
            ELSE IF ~PassesLimits(record.commit, limits)
            THEN /\ outcome = "ok"
                 /\ UNCHANGED <<ctlVars, files, faults>>
            ELSE IF outcome = "write raises"
            THEN /\ faults' = faults \cup {<<"write", DiffFile(record.commit.sha)>>}
                 /\ UNCHANGED <<ctlVars, files>>
            ELSE /\ files' = DictSet(files, DiffFile(record.commit.sha),
                                     <<record.commit.sha, record.commit.nfiles>>)
                 /\ UNCHANGED <<ctlVars, faults>>
    /\ diff_idx' = diff_idx + 1
    /\ UNCHANGED <<limits, report_formats, calls, argVars, routerVars, repoVars,
                   aggVars, all_unique_commit_records>>
    /\ UNCHANGED <<inVars, guiVars>>

\* save_commit_diffs returns and main ends, main.py:229
Complete ==
    /\ pc = "save_diffs"
    /\ diff_idx > Len(all_unique_commit_records)
    /\ ExitWith(0)
    /\ UNCHANGED <<argVars, routerVars, repoVars, aggVars,
                   all_unique_commit_records, outVars, histVars>>
    /\ UNCHANGED <<inVars, guiVars>>

-----------------------------------------------------------------------------
(* main_gui.launch_interface: run_tool and abort_tool. The event loop runs
   one callback at a time, so a coroutine is one step from an await to the
   next; the functions handed to asyncio.to_thread run beside it. *)

\* the invocations of run_tool
Runs == 1..MaxRuns

notGui == <<ctlVars, argVars, routerVars, repoVars, aggVars,
            all_unique_commit_records, outVars, histVars, inVars>>

\* update_run_button, lines 144-156, called when a field loses the focus
UpdateRunButton ==
    /\ pc = "gui"
    /\ \E valid \in BOOLEAN :
          run_btn' = IF valid THEN "enabled" ELSE "disabled"
    /\ UNCHANGED <<proc_ref, run_pc, child, abort_btn, log_output, notGui>>

\* run_tool, lines 24-53: a click on Run, up to the await of the thread that
\* calls subprocess.Popen
RunTool(i) ==
    /\ pc = "gui"
    /\ run_btn = "enabled"
    /\ run_pc[i] = "idle"
    /\ IF proc_ref # 0
       THEN /\ run_pc' = [run_pc EXCEPT ![i] = "done"]
            /\ UNCHANGED <<run_btn, abort_btn>>
       ELSE /\ run_btn' = "disabled"
            /\ abort_btn' = "enabled"
            /\ run_pc' = [run_pc EXCEPT ![i] = "popen"]
    /\ UNCHANGED proc_ref
    /\ UNCHANGED <<child, log_output, notGui>>

\* lines 54-58, in the thread: subprocess.Popen starts the child or raises
Popen(i) ==
    /\ pc = "gui"
    /\ run_pc[i] = "popen"
    /\ \E started \in BOOLEAN :
          IF started
          THEN /\ child' = [child EXCEPT ![i] = "running"]
               /\ run_pc' = [run_pc EXCEPT ![i] = "started"]
          ELSE /\ run_pc' = [run_pc EXCEPT ![i] = "raised"]
               /\ UNCHANGED child
    /\ UNCHANGED <<proc_ref, run_btn, abort_btn, log_output, notGui>>

\* lines 54-65: the coroutine goes on with the Popen object, up to the await
\* of readline
HoldChild(i) ==
    /\ pc = "gui"
    /\ run_pc[i] = "started"
    /\ proc_ref' = i
    /\ run_pc' = [run_pc EXCEPT ![i] = "readline"]
    /\ UNCHANGED <<child, run_btn, abort_btn, log_output, notGui>>

\* lines 61-68: readline gives a line of the running child, or b'' once the
\* child is over
ReadLine(i) ==
    /\ pc = "gui"
    /\ run_pc[i] = "readline"
    /\ IF child[i] = "running"
       THEN /\ log_output < MaxLog
            /\ log_output' = log_output + 1
            /\ UNCHANGED run_pc
       ELSE /\ run_pc' = [run_pc EXCEPT ![i] = "wait"]
            /\ UNCHANGED log_output
    /\ UNCHANGED <<proc_ref, child, run_btn, abort_btn, notGui>>

\* lines 69-73: wait() returns and the finally clause runs; the same clause
\* when Popen raised
Finally(i) ==
    /\ pc = "gui"
    /\ run_pc[i] \in {"wait", "raised"}
    /\ proc_ref' = 0
    /\ run_btn' = "enabled"
    /\ abort_btn' = "disabled"
    /\ run_pc' = [run_pc EXCEPT ![i] = "done"]
    /\ UNCHANGED <<child, log_output, notGui>>

\* the child process comes to its end by itself
ChildExit(i) ==
    /\ pc = "gui"
    /\ child[i] = "running"
    /\ child' = [child EXCEPT ![i] = "ended"]
    /\ UNCHANGED <<proc_ref, run_pc, run_btn, abort_btn, log_output, notGui>>

\* abort_tool, lines 75-77, where it kills a running child
AbortTool ==
    /\ pc = "gui"
    /\ proc_ref # 0
    /\ child[proc_ref] = "running"
    /\ child' = [child EXCEPT ![proc_ref] = "killed"]
    /\ UNCHANGED <<proc_ref, run_pc, run_btn, abort_btn, log_output, notGui>>

-----------------------------------------------------------------------------
(* Specifications. *)

ArgsUnread ==
    /\ since_date = 0
    /\ no_verify_ssl = FALSE
    /\ ca_bundle = ""
    /\ ssl_verify = "true"

RouterIdle ==
    /\ token_map = <<>>
    /\ parsed_map = <<>>
    /\ apis = <<>>
    /\ default_api = NoClient
    /\ owner_idx = 0
    /\ next_id = 0

ReposIdle ==
    /\ repo_full_names = <<>>
    /\ repos_by_owner = <<>>
    /\ fr_idx = 0
    /\ repos = <<>>

AggregatorIdle ==
    /\ proc_idx = 0
    /\ processed_repo_names = {}
    /\ all_commit_records = <<>>
    /\ all_pull_requests = <<>>
    /\ all_pr_commit_records = <<>>
    /\ pr_idx = 0
    /\ processed_pr_numbers = {}

OutputIdle ==
    /\ all_unique_commit_records = <<>>
    /\ files = <<>>
    /\ diff_idx = 0
    /\ limits = <<0, 0>>
    /\ report_formats = {}
    /\ calls = {}
    /\ faults = {}

\* the default commit fields, and no listing handed over on its own
InputsDefault ==
    /\ commit_fields = CommitFields
    /\ remote = NoRemote

\* the interface is not launched
GuiIdle ==
    /\ proc_ref = 0
    /\ run_pc = [i \in Runs |-> "idle"]
    /\ child = [i \in Runs |-> "none"]
    /\ run_btn = "disabled"
    /\ abort_btn = "disabled"
    /\ log_output = 0

\* The whole pipeline: main from its first line.
Init ==
    /\ pc = "validate_args"
    /\ exitCode = -1
    /\ GuiIdle
    /\ ArgsUnread
    /\ env_token = ""
    /\ token_str = <<>>
    /\ RouterIdle
    /\ ReposIdle
    /\ fetch_pr_commits = FALSE
    /\ include_merge_commits = FALSE
    /\ AggregatorIdle
    /\ OutputIdle
    /\ InputsDefault

Next ==
    \/ ValidateArgs
    \/ ReadToken
    \/ ParseTokenMap
    \/ InitDefault
    \/ InitOwner
    \/ InitFinish
    \/ CheckApis
    \/ ParseRepos
    \/ SaveMetadata
    \/ FetchReposOwner
    \/ FetchReposDone
    \/ ProcessRepo
    \/ ProcessPR
    \/ Dedupe
    \/ CheckEmpty
    \/ GenerateReports
    \/ DiffInit
    \/ SaveDiff
    \/ Complete

Spec == Init /\ [][Next]_vars

\* The credential router on every token specification of the bounds:
\* main.py:171-174, parse_token_map and initialize_apis.
InitRouter ==
    /\ pc = "parse_token_map"
    /\ exitCode = -1
    /\ GuiIdle
    /\ ArgsUnread
    /\ env_token \in EnvTokens
    /\ token_str \in TokenStrs
    /\ RouterIdle
    /\ ReposIdle
    /\ fetch_pr_commits = FALSE
    /\ include_merge_commits = FALSE
    /\ AggregatorIdle
    /\ OutputIdle
    /\ InputsDefault

NextRouter ==
    \/ ParseTokenMap
    \/ InitDefault
    \/ InitOwner
    \/ InitFinish

SpecRouter == InitRouter /\ [][NextRouter]_vars

\* The merge step of process_commits_and_prs on every pair of record lists
\* of the bounds.
MergeRecords(via) ==
    {CommitRecord(r.full_name, c, via) : r \in {R1, R2}, c \in {K1, K2}}

SeqsFromZero(S, n) == UNION {[1..k -> S] : k \in 0..n}

InitMerge ==
    /\ pc = "process"
    /\ exitCode = -1
    /\ GuiIdle
    /\ ArgsUnread
    /\ env_token = ""
    /\ token_str = <<>>
    /\ RouterIdle
    /\ ReposIdle
    /\ fetch_pr_commits = TRUE
    /\ include_merge_commits = FALSE
    /\ all_commit_records \in SeqsFromZero(MergeRecords("direct"), MaxMerge)
    /\ all_pr_commit_records \in SeqsFromZero(MergeRecords("pr"), MaxMerge)
    /\ proc_idx = 1
    /\ processed_repo_names = {}
    /\ all_pull_requests = <<>>
    /\ pr_idx = 1
    /\ processed_pr_numbers = {}
    /\ OutputIdle
    /\ InputsDefault

NextMerge == Dedupe

SpecMerge == InitMerge /\ [][NextMerge]_vars

\* The three listing operations of GitHubAPI, each on every listing of the
\* bounds: remote holds the listing and the entry at which reading it raises.
Remote(op, raised, listing, failAt) ==
    [op |-> op, raised |-> raised, listing |-> listing, failAt |-> failAt]

\* the date of --since the listings are filtered on
ListingSince == parse_date("2024-01-02")

DirectCommits == {K1, K2, K3, K7}

ListedPulls ==
    {PullRequest(1, 45, "alice", R1), PullRequest(2, 44, "alice", R3),
     PullRequest(3, 43, "mallory", R1), PullRequest(4, 10, "alice", R1)}

PrCommits == {K1, K3, K6, K8, K9, K10}

\* list(repo.get_commits(...)) raises as a whole or returns the listing
CommitRemotes ==
    {Remote("get_commits", raised, listing, 0) :
        raised \in BOOLEAN, listing \in SeqsFromZero(DirectCommits, MaxListing)}

PagedRemotes(op, entries) ==
    UNION {{Remote(op, FALSE, listing, failAt) : failAt \in 0..Len(listing)} :
           listing \in SeqsFromZero(entries, MaxListing)}

InitListings ==
    /\ pc = "list"
    /\ exitCode = -1
    /\ GuiIdle
    /\ since_date = ListingSince
    /\ no_verify_ssl = FALSE
    /\ ca_bundle = ""
    /\ ssl_verify = "true"
    /\ env_token = ""
    /\ token_str = <<>>
    /\ RouterIdle
    /\ repo_full_names = <<>>
    /\ repos_by_owner = <<>>
    /\ fr_idx = 0
    /\ repos = <<R1>>
    /\ fetch_pr_commits \in BOOLEAN
    /\ include_merge_commits \in BOOLEAN
    /\ AggregatorIdle
    /\ OutputIdle
    /\ commit_fields = CommitFields
    /\ \/ remote \in CommitRemotes
       \/ /\ remote \in PagedRemotes("get_pulls", ListedPulls)
          /\ fetch_pr_commits /\ ~include_merge_commits
       \/ /\ remote \in PagedRemotes("get_pr_commits", PrCommits)
          /\ fetch_pr_commits

\* fetch_repo_commit_records applied to repos[1], with the flags as
\* process_commits_and_prs passes them (lines 322-325)
ListCommits ==
    /\ pc = "list"
    /\ remote.op = "get_commits"
    /\ all_commit_records' =
          fetch_repo_commit_records(repos[1], remote.raised, remote.listing,
                                    include_merge_commits, fetch_pr_commits)
    /\ pc' = "listed"
    /\ UNCHANGED <<exitCode, fetch_pr_commits, include_merge_commits, proc_idx,
                   processed_repo_names, all_pull_requests, pr_idx,
                   processed_pr_numbers, all_pr_commit_records, argVars,
                   routerVars, repoVars, all_unique_commit_records, outVars,
                   histVars, inVars, guiVars>>

\* fetch_user_pull_requests_in_repos applied to repos[1]
ListPulls ==
    /\ pc = "list"
    /\ remote.op = "get_pulls"
    /\ all_pull_requests' =
          fetch_user_pull_requests(remote.listing, remote.failAt, since_date)
    /\ pc' = "listed"
    /\ UNCHANGED <<exitCode, fetch_pr_commits, include_merge_commits, proc_idx,
                   processed_repo_names, all_commit_records, pr_idx,
                   processed_pr_numbers, all_pr_commit_records, argVars,
                   routerVars, repoVars, all_unique_commit_records, outVars,
                   histVars, inVars, guiVars>>

\* the pull request whose commits are listed on their own: one of another
\* repository than repos[1]
ListedPr == PullRequest(2, 44, "alice", R3)

\* fetch_user_commit_records_in_pr_after_date applied to ListedPr
ListPrCommits ==
    /\ pc = "list"
    /\ remote.op = "get_pr_commits"
    /\ all_pr_commit_records' =
          fetch_user_commit_records_in_pr(ListedPr, remote.listing,
                                          remote.failAt, since_date)
    /\ pc' = "listed"
    /\ UNCHANGED <<exitCode, fetch_pr_commits, include_merge_commits, proc_idx,
                   processed_repo_names, all_commit_records, all_pull_requests,
                   pr_idx, processed_pr_numbers, argVars, routerVars, repoVars,
                   all_unique_commit_records, outVars, histVars, inVars, guiVars>>

NextListings ==
    \/ ListCommits
    \/ ListPulls
    \/ ListPrCommits

SpecListings == InitListings /\ [][NextListings]_vars

\* The report generator on every list of commit records of the bounds, with
\* every value of --commit-fields and of --report-formats.
RenderRecords ==
    {CommitRecord(r.full_name, c, "direct") : r \in {R1, R2, R3}, c \in {K1, K2, K4}}

\* the merge leaves one record for a SHA
DistinctShas(records) ==
    \A i, k \in 1..Len(records) :
        records[i].commit.sha = records[k].commit.sha => i = k

InitRender ==
    /\ pc = "generate_reports"
    /\ exitCode = -1
    /\ GuiIdle
    /\ since_date = ListingSince
    /\ no_verify_ssl = FALSE
    /\ ca_bundle = ""
    /\ ssl_verify = "true"
    /\ env_token = ""
    /\ token_str = <<>>
    /\ RouterIdle
    /\ repo_full_names = <<>>
    /\ repos_by_owner = <<>>
    /\ fr_idx = 0
    /\ repos = <<R1, R2, R3>>
    /\ fetch_pr_commits = FALSE
    /\ include_merge_commits = FALSE
    /\ AggregatorIdle
    /\ all_unique_commit_records \in
          {records \in SeqsUpTo(RenderRecords, MaxRender) : DistinctShas(records)}
    /\ files = <<>>
    /\ diff_idx = 0
    /\ limits = <<0, 0>>
    /\ report_formats = {}
    /\ calls = {}
    /\ faults = {}
    /\ commit_fields \in (SUBSET AllCommitFields) \ {{}}
    /\ remote = NoRemote

NextRender == GenerateReports

SpecRender == InitRender /\ [][NextRender]_vars

\* The interface: launch_interface has built the page.
InitGui ==
    /\ pc = "gui"
    /\ exitCode = -1
    /\ GuiIdle
    /\ ArgsUnread
    /\ env_token = ""
    /\ token_str = <<>>
    /\ RouterIdle
    /\ ReposIdle
    /\ fetch_pr_commits = FALSE
    /\ include_merge_commits = FALSE
    /\ AggregatorIdle
    /\ OutputIdle
    /\ InputsDefault

NextGui ==
    \/ UpdateRunButton
    \/ \E i \in Runs : RunTool(i)
    \/ \E i \in Runs : Popen(i)
    \/ \E i \in Runs : HoldChild(i)
    \/ \E i \in Runs : ReadLine(i)
    \/ \E i \in Runs : Finally(i)
    \/ \E i \in Runs : ChildExit(i)
    \/ AbortTool

SpecGui == InitGui /\ [][NextGui]_vars

-----------------------------------------------------------------------------
(* Properties of the credential router. *)

\* the default token initialize_apis pops from the dict it is given
ParsedDefault ==
    IF DictHas(parsed_map, DefaultKey) THEN DictGet(parsed_map, DefaultKey) ELSE ""

\* parse_token_map has returned
Parsed == pc # "parse_token_map"

\* the default token's turn is over
DefaultDone == pc \notin {"parse_token_map", "init_default"}

\* the owner entries of the dict parse_token_map returned
OwnerEntries == {i \in 1..Len(parsed_map) : parsed_map[i][1] # DefaultKey}

\* C6: a default token that is present and fails to authenticate ends the
\* process with exit code 1 whatever the owner tokens are: no client is
\* constructed or registered and no later step is reached.
C6_DefaultFailureFatal ==
    (DefaultDone /\ ParsedDefault # "" /\ ~Authenticates(ParsedDefault, env_token))
        => /\ pc = "exited"
           /\ exitCode = 1
           /\ apis = <<>>
           /\ next_id = 0

C6_Witness ==
    /\ pc = "exited"
    /\ ParsedDefault = "bad"
    /\ \E i \in OwnerEntries : Authenticates(parsed_map[i][2], env_token)

\* C7: an owner token that fails to authenticate costs only that owner's
\* entry.  Once initialize_apis has returned, every owner whose token
\* authenticates is registered, an owner whose token does not is registered
\* only if its key is the default token's login, the default client is
\* registered under the default key and its login; and the process exits in
\* initialize_apis only for a failing default token.
C7_OwnerFailureDropsOnlyOwner ==
    /\ pc = "exited" => (ParsedDefault # "" /\ ~Authenticates(ParsedDefault, env_token))
    /\ pc = "check_apis" =>
        /\ \A i \in OwnerEntries :
              LET o == parsed_map[i][1]
                  t == parsed_map[i][2]
              IN /\ Authenticates(t, env_token) => DictHas(apis, o)
                 /\ (~Authenticates(t, env_token) /\ DictHas(apis, o))
                       => (default_api # NoClient /\ o = Lower(default_api.login))
        /\ ParsedDefault # "" =>
              /\ default_api # NoClient
              /\ DictGet(apis, DefaultKey) = default_api
              /\ DictGet(apis, Lower(default_api.login)) = default_api

C7_Witness ==
    /\ pc = "check_apis"
    /\ ParsedDefault # ""
    /\ \E i, j \in OwnerEntries :
          /\ ~Authenticates(parsed_map[i][2], env_token)
          /\ ~DictHas(apis, parsed_map[i][1])
          /\ Authenticates(parsed_map[j][2], env_token)
          /\ DictHas(apis, parsed_map[j][1])
          /\ DictGet(apis, parsed_map[j][1]) # default_api

\* the positions of the bare segments of the token specification
BareIdx == {i \in 1..Len(token_str) : ~token_str[i].colon}

\* the last position of a set of positions
Last(S) == CHOOSE i \in S : \A j \in S : j <= i

\* C9: a token specification of owner:token pairs only yields a dict with
\* no default entry, and no client is registered under the default key.
C9_NoBareNoDefault ==
    (BareIdx = {} /\ Parsed)
        => /\ ~DictHas(parsed_map, DefaultKey)
           /\ ~DictHas(apis, DefaultKey)

\* C9 holds of the specifications none of whose owners is the placeholder key.
C9_HoldsWithoutPlaceholderOwner ==
    (BareIdx = {} /\ Parsed
       /\ \A i \in 1..Len(token_str) : Lower(Strip(token_str[i].owner)) # DefaultKey)
        => /\ ~DictHas(parsed_map, DefaultKey)
           /\ ~DictHas(apis, DefaultKey)

\* the positions of the owner:token segments whose owner key is k
OwnerIdx(k) ==
    {i \in 1..Len(token_str) : token_str[i].colon /\ Lower(Strip(token_str[i].owner)) = k}

\* C10: of several bare tokens the last one is the default token; every
\* owner key is the lowercased owner and holds the token of the last segment
\* of that owner.
C10_LastBareWins ==
    (Cardinality(BareIdx) >= 2 /\ Parsed)
        => /\ DictHas(parsed_map, DefaultKey)
           /\ DictGet(parsed_map, DefaultKey) = Strip(token_str[Last(BareIdx)].token)
           /\ \A i \in 1..Len(token_str) :
                 token_str[i].colon =>
                   LET k == Lower(Strip(token_str[i].owner))
                   IN /\ DictHas(parsed_map, k)
                      /\ DictGet(parsed_map, k) = Strip(token_str[Last(OwnerIdx(k))].token)

\* C10 holds of the specifications none of whose owners is the placeholder key.
C10_HoldsWithoutPlaceholderOwner ==
    (Cardinality(BareIdx) >= 2 /\ Parsed /\ OwnerIdx(DefaultKey) = {})
        => /\ DictGet(parsed_map, DefaultKey) = Strip(token_str[Last(BareIdx)].token)
           /\ \A i \in 1..Len(token_str) :
                 token_str[i].colon =>
                   LET k == Lower(Strip(token_str[i].owner))
                   IN DictGet(parsed_map, k) = Strip(token_str[Last(OwnerIdx(k))].token)

-----------------------------------------------------------------------------
(* Properties of the merge step. *)

\* the records handed to the merge, direct commits first
MergeInput == all_commit_records \o all_pr_commit_records

\* the first position of a SHA in a list of records
FirstOf(records, sha) ==
    CHOOSE i \in 1..Len(records) :
        /\ records[i].commit.sha = sha
        /\ \A j \in 1..(i - 1) : records[j].commit.sha # sha

\* C1: once the merge has returned, the result holds exactly one record for
\* every SHA of its input and no other record, and the record kept for a SHA
\* is the first one with that SHA when the direct commits are read before the
\* PR commits; so a SHA of both lists keeps its direct-commit record.
C1_FirstOccurrenceWins ==
    pc = "check_empty" =>
        LET out == all_unique_commit_records
        IN /\ \A i \in 1..Len(MergeInput) :
                 Cardinality({j \in 1..Len(out) :
                     out[j].commit.sha = MergeInput[i].commit.sha}) = 1
           /\ \A j \in 1..Len(out) :
                 /\ \E i \in 1..Len(MergeInput) :
                       MergeInput[i].commit.sha = out[j].commit.sha
                 /\ out[j] = MergeInput[FirstOf(MergeInput, out[j].commit.sha)]
           /\ \A j \in 1..Len(out) :
                 (\E i \in 1..Len(all_commit_records) :
                     all_commit_records[i].commit.sha = out[j].commit.sha)
                 => out[j].via = "direct"

C1_Witness ==
    /\ pc = "check_empty"
    /\ \E i \in 1..Len(all_commit_records), k \in 1..Len(all_pr_commit_records),
          j \in 1..Len(all_unique_commit_records) :
          /\ all_commit_records[i].commit.sha = all_pr_commit_records[k].commit.sha
          /\ all_commit_records[i].repo_full_name
                # all_pr_commit_records[k].repo_full_name
          /\ all_unique_commit_records[j] = all_commit_records[i]
    /\ Len(all_unique_commit_records) = 2
    /\ Len(MergeInput) > 3

-----------------------------------------------------------------------------
(* Properties of the credential resolution. *)

\* the owner a remote call is made for: of the requested name for get_repo, of
\* the repository for get_commits and get_pulls, of the base repository for
\* the commits of a pull request
CallOwner(c) ==
    Lower(OwnerPart(IF c.op = "get_pr_commits" THEN c.target[1] ELSE c.target))

\* owner has no client of its own and there is no default client
NoCredentialFor(owner) ==
    ~DictHas(apis, owner) /\ ~DictHas(apis, DefaultKey)

\* the run ended with exit code 1
Aborted == pc = "exited" /\ exitCode = 1

\* C2: every remote call for a repository or a pull request is made with the
\* client registered under the lowercased owner when there is one, else with
\* the client registered under the default key; where neither exists no call
\* is made and the run ends with exit code 1.
C2_ResolutionRule ==
    /\ \A c \in calls :
          /\ c.client # NoClient
          /\ DictHas(apis, CallOwner(c)) => c.client = DictGet(apis, CallOwner(c))
          /\ ~DictHas(apis, CallOwner(c)) =>
                /\ DictHas(apis, DefaultKey)
                /\ c.client = DictGet(apis, DefaultKey)
    /\ \A i \in 1..Len(repos_by_owner) :
          (i < fr_idx /\ NoCredentialFor(repos_by_owner[i][1])) => Aborted
    /\ \A i \in 1..Len(repos) :
          (i < proc_idx /\ NoCredentialFor(Lower(repos[i].owner))) => Aborted
    /\ \A i \in 1..Len(all_pull_requests) :
          (i < pr_idx /\ NoCredentialFor(Lower(all_pull_requests[i].base.owner)))
              => Aborted
    /\ \A i \in 1..Len(repos) :
          (i < proc_idx /\ ~Aborted) =>
              \E c \in calls : c.op = "get_commits" /\ c.target = repos[i].full_name

C2_Witness ==
    /\ \E c \in calls, d \in calls :
          /\ c.op = "get_commits"
          /\ DictHas(apis, CallOwner(c))
          /\ DictHas(apis, DefaultKey)
          /\ c.client # DictGet(apis, DefaultKey)
          /\ d.op = "get_pr_commits"
          /\ ~DictHas(apis, CallOwner(d))
          /\ d.client = DictGet(apis, DefaultKey)

-----------------------------------------------------------------------------
(* Properties of main: exit codes. *)

\* main has not yet come to the check of the client table
BeforeCheckApis ==
    pc \in {"validate_args", "read_token", "parse_token_map", "init_default",
            "init_owner", "check_apis"}

\* main has not yet come to the check of the fetched repositories
BeforeReposChecked ==
    BeforeCheckApis \/ pc \in {"parse_repos", "save_metadata", "fetch_repositories"}

\* --since does not parse or lies in the future
BadSince == pc # "validate_args" /\ (since_date = -1 \/ since_date > Now)

\* --ca-bundle names a file that does not exist
MissingBundle == ca_bundle # "" /\ ~PathExists(ca_bundle)

\* neither --token nor the environment gives a token, or no client was built
NoUsableCredentials ==
    \/ token_str = EmptyStr
    \/ ~BeforeCheckApis /\ apis = <<>>

\* --repositories names no repository
NoRepositoriesSpecified ==
    ~BeforeCheckApis /\ pc # "parse_repos" /\ repo_full_names = <<>>

\* no requested repository could be fetched
NoRepositoriesResolved == ~BeforeReposChecked /\ repos = <<>>

\* an owner the run came to has no client and there is no default client
OwnerWithoutCredential ==
    \/ \E i \in 1..Len(repos_by_owner) :
          i < fr_idx /\ NoCredentialFor(repos_by_owner[i][1])
    \/ \E i \in 1..Len(repos) :
          i < proc_idx /\ NoCredentialFor(Lower(repos[i].owner))
    \/ \E i \in 1..Len(all_pull_requests) :
          i < pr_idx /\ NoCredentialFor(Lower(all_pull_requests[i].base.owner))

\* reading a commit for its diff raised, which nothing catches
Crashed == \E f \in faults : f[1] = "read"

\* the exit codes, with bundle telling when a missing CA bundle file is fatal
ExitCodes(bundle) ==
    /\ BadSince => Aborted
    /\ bundle => Aborted
    /\ NoUsableCredentials => Aborted
    /\ NoRepositoriesSpecified => Aborted
    /\ NoRepositoriesResolved => Aborted
    /\ OwnerWithoutCredential => Aborted
    /\ (/\ pc = "exited"
        /\ ~BadSince /\ ~bundle /\ ~NoUsableCredentials
        /\ ~NoRepositoriesSpecified /\ ~NoRepositoriesResolved
        /\ ~OwnerWithoutCredential /\ ~Crashed)
       => exitCode = 0

\* C3 as claimed: the process exits with code 1 on every fatal precondition
\* failure, a missing CA bundle file among them, and with code 0 when it ends
\* without one, also when no contribution was found.
C3_ExitCodes == ExitCodes(MissingBundle)

\* C3 as amended: a missing CA bundle file is fatal where SSL verification
\* is not switched off; the rest as claimed.
C3_ExitCodesBundleUsed == ExitCodes(MissingBundle /\ ~no_verify_ssl)

C3_Witness ==
    /\ Aborted
    /\ MissingBundle
    /\ ~no_verify_ssl
    /\ ~BadSince

\* a run that ended with code 0 though it found nothing
C3_WitnessSuccess ==
    /\ pc = "exited"
    /\ exitCode = 0
    /\ all_unique_commit_records = <<>>

-----------------------------------------------------------------------------
(* Properties of main: what a run leaves in the output directory. *)

ReportFiles == {ReportFile(f) : f \in Formats}

\* the positions in files of the report files, and of the diff files
ReportEntries(fs) == {i \in 1..Len(fs) : fs[i][1] \in ReportFiles}
DiffEntries(fs) == {i \in 1..Len(fs) : Len(fs[i][1]) = 2 /\ fs[i][1][1] = "commits"}

\* no write of a file raised
NoWriteFault == \A f \in faults : f[1] # "write"

\* metadata.json is the first file written and lists the requested repositories
MetadataWritten(fs) ==
    /\ fs # <<>>
    /\ fs[1][1] = MetadataFile
    /\ fs[1][2].repositories = repo_full_names
    /\ fs[1][2].username = Username

\* C4: in a run where no file write raised and the merge returned an empty
\* list, the next step ends the process with exit code 0; metadata.json is
\* then the only file of the output directory, no report format was read and
\* the diff archiver was not constructed; and no step follows the exit, so
\* that neither is started later.
C4_EmptyRunEnds ==
    [][/\ (pc = "check_empty" /\ all_unique_commit_records = <<>> /\ NoWriteFault)
            => /\ pc' = "exited"
               /\ exitCode' = 0
               /\ MetadataWritten(files')
               /\ Len(files') = 1
               /\ report_formats' = {}
               /\ diff_idx' = 0
               /\ limits' = <<0, 0>>
       /\ pc # "exited"]_vars

C4_Witness ==
    /\ pc = "exited"
    /\ exitCode = 0
    /\ all_unique_commit_records = <<>>
    /\ MetadataWritten(files)
    /\ Len(files) = 1
    /\ NoWriteFault

\* the commits of the sections of a report, as the SHA their url field points to
ReportShas(report) ==
    UNION {{DictGet(report[k].commits[m], "url")[2] :
               m \in 1..Len(report[k].commits)} : k \in 1..Len(report)}

\* every section is headed by a repository and holds the commits of that
\* repository and no other, oldest first
GroupedOldestFirst(report) ==
    /\ \A k, l \in 1..Len(report) : report[k].name = report[l].name => k = l
    /\ \A k \in 1..Len(report) :
          LET commits == report[k].commits
              mine == {r \in {all_unique_commit_records[i] :
                                 i \in 1..Len(all_unique_commit_records)} :
                          r.repo_full_name = report[k].name}
          IN /\ Len(commits) = Cardinality(mine)
             /\ {DictGet(commits[m], "url")[2] : m \in 1..Len(commits)}
                   = {r.commit.sha : r \in mine}
             /\ \A m \in 1..(Len(commits) - 1) :
                   DictGet(commits[m], "date") <= DictGet(commits[m + 1], "date")

\* PR fetching is off, the run found commits, all of them pass the thresholds
\* of the diff archiver, and neither a write nor a read for a diff raised
C5_Scenario ==
    /\ ~fetch_pr_commits
    /\ all_unique_commit_records # <<>>
    /\ \A i \in 1..Len(all_unique_commit_records) :
          PassesLimits(all_unique_commit_records[i].commit, limits)
    /\ faults = {}

\* C5: a run of that scenario that has ended has exit code 0 and left, in
\* this order: metadata.json listing the requested repositories; the report
\* file of every requested format and of no other, with all N commits grouped
\* under the heading of their repository, oldest first; N diff files, one
\* named after the SHA of each commit.
C5_SuccessRun ==
    (C5_Scenario /\ pc = "exited") =>
        LET shas == {all_unique_commit_records[i].commit.sha :
                        i \in 1..Len(all_unique_commit_records)}
        IN /\ exitCode = 0
           /\ MetadataWritten(files)
           /\ {files[i][1] : i \in ReportEntries(files)}
                 = {ReportFile(f) : f \in report_formats}
           /\ report_formats # {}
           /\ \A i \in ReportEntries(files) :
                 /\ GroupedOldestFirst(files[i][2])
                 /\ ReportShas(files[i][2]) = shas
           /\ Cardinality(DiffEntries(files)) = Len(all_unique_commit_records)
           /\ {files[i][1] : i \in DiffEntries(files)} = {DiffFile(h) : h \in shas}
           /\ \A i \in ReportEntries(files), j \in DiffEntries(files) : 1 < i /\ i < j
           /\ Len(files) = 1 + Cardinality(ReportEntries(files))
                             + Cardinality(DiffEntries(files))

C5_Witness ==
    /\ C5_Scenario
    /\ pc = "exited"
    /\ exitCode = 0
    /\ Len(repo_full_names) = 1
    /\ Len(all_unique_commit_records) = 2
    /\ all_unique_commit_records[1].commit.date > all_unique_commit_records[2].commit.date
    /\ report_formats = Formats
    /\ Cardinality(DiffEntries(files)) = 2

-----------------------------------------------------------------------------
(* Properties of the remote-call failures. *)

\* the remote call raised: get_repo returned no repository, the listing of
\* the commits raised, a paginated listing raised at one of its entries
Failed(c) ==
    IF c.op = "get_repo" THEN c.response = NoRepo
    ELSE IF c.op = "get_commits" THEN c.response[1]
    ELSE c.response[2] # 0

\* the repository of the remote service with that full name
RepoNamed(name) == CHOOSE r \in {R1, R2, R3} : r.full_name = name

\* the SHAs of the merged result
ResultShas ==
    {all_unique_commit_records[i].commit.sha :
        i \in 1..Len(all_unique_commit_records)}

\* the SHAs of the records a call yielded, up to the entry where it raised
YieldedShas(c) ==
    IF c.op = "get_commits"
    THEN LET records == fetch_repo_commit_records(RepoNamed(c.target),
                            c.response[1], c.response[2],
                            include_merge_commits, fetch_pr_commits)
         IN {records[i].commit.sha : i \in 1..Len(records)}
    ELSE IF c.op = "get_pr_commits"
    THEN LET pr == PullRequest(c.target[2], since_date, Username,
                               RepoNamed(c.target[1]))
             records == fetch_user_commit_records_in_pr(pr, c.response[1],
                            c.response[2], since_date)
         IN {records[i].commit.sha : i \in 1..Len(records)}
    ELSE {}

\* the pull requests a listing yielded, up to the entry where it raised
YieldedPulls(c) ==
    IF c.op = "get_pulls"
    THEN LET prs == fetch_user_pull_requests(c.response[1], c.response[2], since_date)
         IN {<<prs[i].base.full_name, prs[i].number>> : i \in 1..Len(prs)}
    ELSE {}

\* Once process_commits_and_prs has returned: every requested repository was
\* asked for and is in the list unless its fetch failed; every repository of
\* the list had its commits and, if wanted, its pull requests listed; every
\* pull request a listing yielded had its commits listed; and every commit a
\* listing yielded is in the result.
EveryItemContributes ==
    pc = "check_empty" =>
        /\ \A i \in 1..Len(repo_full_names) :
              HasSlash(repo_full_names[i]) =>
                 \E c \in calls : c.op = "get_repo" /\ c.target = repo_full_names[i]
        /\ \A c \in calls :
              (c.op = "get_repo" /\ ~Failed(c)) =>
                 \E i \in 1..Len(repos) : repos[i] = c.response
        /\ \A i \in 1..Len(repos) :
              /\ \E c \in calls : c.op = "get_commits" /\ c.target = repos[i].full_name
              /\ fetch_pr_commits =>
                    \E c \in calls : c.op = "get_pulls" /\ c.target = repos[i].full_name
        /\ \A c \in calls : \A key \in YieldedPulls(c) :
              \E d \in calls : d.op = "get_pr_commits" /\ d.target = key
        /\ \A c \in calls : YieldedShas(c) \subseteq ResultShas

\* C8 as claimed: a remote call that raised never ends the run (a run that
\* ended with exit code 1 after one ended for an owner without credential),
\* and every other repository and pull request is processed and contributes
\* its commits to the result.
C8_FailuresIsolated ==
    /\ (Aborted /\ \E c \in calls : Failed(c)) => OwnerWithoutCredential
    /\ EveryItemContributes

\* C8 as amended: as claimed, except that the run ends with exit code 1 when
\* the fetch of every requested repository failed.
C8_FailuresIsolatedWhileSomeRepo ==
    /\ (Aborted /\ \E c \in calls : Failed(c))
          => (OwnerWithoutCredential \/ NoRepositoriesResolved)
    /\ EveryItemContributes

C8_Witness ==
    /\ pc = "check_empty"
    /\ \E c \in calls : c.op = "get_repo" /\ Failed(c)
    /\ \E c \in calls : c.op = "get_commits" /\ Failed(c)
    /\ \E c \in calls : c.op = "get_pulls" /\ Failed(c)
    /\ \E c \in calls : c.op = "get_pr_commits" /\ Failed(c)
    /\ ResultShas # {}

\* one repository's listing of commits raised and another's commits are in
\* the result
C8_WitnessOtherRepository ==
    /\ pc = "check_empty"
    /\ \E c \in calls, d \in calls :
          /\ c.op = "get_commits" /\ Failed(c)
          /\ d.op = "get_commits" /\ ~Failed(d) /\ YieldedShas(d) # {}

-----------------------------------------------------------------------------
(* Properties of the listing operations. *)

\* the SHAs of a list of commit records
ShasOf(records) == {records[i].commit.sha : i \in 1..Len(records)}

\* fetch_repo_commit_records has returned from a listing that did not raise
DirectListed ==
    /\ pc = "listed"
    /\ remote.op = "get_commits"
    /\ ~remote.raised

\* the commits with two parents of the listing
MergeCommits ==
    {remote.listing[i] : i \in {k \in 1..Len(remote.listing) :
                                    remote.listing[k].parents = 2}}

\* C11 as stated: a commit with 2 parents is left out of the direct commit
\* records when include_merge_commits is false and is among them when it is
\* true.
C11_MergeCommitsFollowFlag ==
    DirectListed =>
        \A c \in MergeCommits :
            c.sha \in ShasOf(all_commit_records) <=> include_merge_commits

\* C11, amended: a commit with 2 parents is left out of the direct commit
\* records when include_merge_commits is false; when it is true the commit is
\* among them unless PR merge commits are excluded and its committer name is
\* 'GitHub'.
C11_MergeCommitsFollowFlagAndCommitter ==
    DirectListed =>
        \A c \in MergeCommits :
            c.sha \in ShasOf(all_commit_records) <=>
                /\ include_merge_commits
                /\ ~(fetch_pr_commits /\ c.committer = "GitHub")

\* a listing with two merge commits, one made by the platform, read with
\* merge commits included and PR merge commits excluded: one is kept
C11_Witness ==
    /\ DirectListed
    /\ include_merge_commits
    /\ fetch_pr_commits
    /\ {K3, K7} \subseteq MergeCommits
    /\ "s3" \in ShasOf(all_commit_records)
    /\ "s7" \notin ShasOf(all_commit_records)

\* fetch_user_pull_requests_in_repos has returned
PullsListed ==
    /\ pc = "listed"
    /\ remote.op = "get_pulls"

\* the positions of the feed whose entry was updated before since_date
OldEntries ==
    {i \in 1..Len(remote.listing) : remote.listing[i].updated_at < since_date}

\* the first of them
FirstOld == CHOOSE i \in OldEntries : \A k \in OldEntries : i <= k

\* the scan came to the first old entry: the listing did not raise before it
ReachedOld ==
    /\ PullsListed
    /\ OldEntries # {}
    /\ remote.failAt = 0 \/ remote.failAt > FirstOld

\* C12: once the scan of a pull request feed reaches an entry updated before
\* since_date it stops: what is returned is the user's pull requests before
\* that entry and nothing at or after it, whatever the later entries are and
\* whether or not reading them would raise.
C12_EarlyExit ==
    ReachedOld =>
        all_pull_requests =
            SelectSeq(SubSeq(remote.listing, 1, FirstOld - 1),
                      LAMBDA pr : pr.user = Username)

\* a feed out of order: a pull request of the user updated after since_date
\* lies behind an old one, at an entry where reading would raise
C12_Witness ==
    /\ ReachedOld
    /\ FirstOld = 2
    /\ Len(remote.listing) = 3
    /\ remote.failAt = 3
    /\ remote.listing[3].user = Username
    /\ remote.listing[3].updated_at >= since_date
    /\ remote.listing[3] # remote.listing[1]
    /\ all_pull_requests = <<remote.listing[1]>>

\* fetch_user_commit_records_in_pr_after_date has returned from a listing
\* that did not raise
PrCommitsListed ==
    /\ pc = "listed"
    /\ remote.op = "get_pr_commits"
    /\ remote.failAt = 0

\* the records of the commits of the listing that pass a test, in the order
\* of the listing, tagged with the base repository of the pull request
TaggedRecords(Test(_)) ==
    LET kept == SelectSeq(remote.listing, Test)
    IN [i \in 1..Len(kept) |->
           CommitRecord(ListedPr.base.full_name, kept[i], "pr")]

CommittedByUser(c) ==
    c.committer = Username /\ c.date >= since_date /\ c.parents <= 1

AuthoredByUser(c) ==
    c.author = Username /\ c.date >= since_date /\ c.parents <= 1

\* C13 as stated: the records returned for a pull request are exactly its
\* commits whose committer is the user and whose author date is on or after
\* since_date, those with more than one parent left out whatever
\* include_merge_commits is, each tagged with the base repository full name.
C13_CommitsOfCommitter ==
    PrCommitsListed => all_pr_commit_records = TaggedRecords(CommittedByUser)

\* C13, amended: the same with the commits whose author login is the user.
C13_CommitsOfAuthor ==
    PrCommitsListed => all_pr_commit_records = TaggedRecords(AuthoredByUser)

\* with merge commits included: a commit the user wrote and another committed
\* is returned under the base repository, one the user committed for another
\* author and a merge commit of the user are not
C13_Witness ==
    /\ PrCommitsListed
    /\ include_merge_commits
    /\ remote.listing = <<K9, K8, K3>>
    /\ all_pr_commit_records = <<CommitRecord("dave/r3", K8, "pr")>>

-----------------------------------------------------------------------------
(* Properties of save_commit_diffs. *)

\* the records save_commit_diffs has dealt with
DiffDone ==
    {all_unique_commit_records[i] :
        i \in {k \in 1..Len(all_unique_commit_records) : k < diff_idx}}

\* neither the reads for the diff of the commit nor its write raised
NoDiffFault(record) ==
    /\ <<"read", DiffFile(record.commit.sha)>> \notin faults
    /\ <<"write", DiffFile(record.commit.sha)>> \notin faults

WithinCeilings(record) ==
    /\ record.commit.total <= limits[2]
    /\ record.commit.nfiles <= limits[1]

\* C14: a commit save_commit_diffs has dealt with without a failure has its
\* <sha>.diff, holding all of its files, iff its changed lines do not exceed
\* the line ceiling and its changed files do not exceed the file ceiling;
\* a commit over a ceiling has no file at all, and the commits after it are
\* dealt with by the same rule.
C14_DiffThresholds ==
    \A record \in DiffDone :
        NoDiffFault(record) =>
            /\ DictHas(files, DiffFile(record.commit.sha)) <=> WithinCeilings(record)
            /\ WithinCeilings(record) =>
                  DictGet(files, DiffFile(record.commit.sha))
                      = <<record.commit.sha, record.commit.nfiles>>

\* a run with the ceilings of 30 files and 3000 lines: a commit of 4000 lines
\* is skipped, the commit of 30 files after it is written, the commit of 31
\* files after that has no file
C14_Witness ==
    /\ pc = "exited"
    /\ exitCode = 0
    /\ faults = {}
    /\ limits = <<30, 3000>>
    /\ Len(all_unique_commit_records) = 3
    /\ diff_idx = 4
    /\ all_unique_commit_records[1].commit = K3
    /\ all_unique_commit_records[2].commit = K1
    /\ all_unique_commit_records[3].commit = K4
    /\ ~DictHas(files, DiffFile("s3"))
    /\ DictHas(files, DiffFile("s1"))
    /\ ~DictHas(files, DiffFile("s4"))

-----------------------------------------------------------------------------
(* Properties of the report generator. *)

\* the reports written, as <<format, report>>
Reports ==
    {<<f, DictGet(files, ReportFile(f))>> :
        f \in {g \in Formats : DictHas(files, ReportFile(g))}}

\* the per-commit dicts of a report
CommitDicts(report) ==
    UNION {{report[k].commits[m] : m \in 1..Len(report[k].commits)} :
           k \in 1..Len(report)}

KeysOf(dict) == {dict[k][1] : k \in 1..Len(dict)}

\* C15: whatever non-empty set of commit fields is asked for and whatever the
\* formats, every per-commit dict of every report written has the fields
\* asked for as its keys, each once, and no other key.
C15_FieldSelection ==
    \A r \in Reports :
        \A dict \in CommitDicts(r[2]) :
            /\ KeysOf(dict) = commit_fields
            /\ Len(dict) = Cardinality(commit_fields)

\* the three formats written with the SHA asked for and the statistics not
C15_Witness ==
    /\ pc = "diff_init"
    /\ commit_fields = {"sha", "files_changed"}
    /\ report_formats = Formats
    /\ \A r \in Reports : CommitDicts(r[2]) # {}
    /\ Cardinality(Reports) = 3

\* the repository groups of a report follow one another in the order of
\* their full names
GroupsInNameOrder(report) ==
    \A k, m \in 1..Len(report) :
        k < m => NameRank(report[k].name) < NameRank(report[m].name)

\* the commits of every group of a report are in ascending order of date
CommitsInDateOrder(report) ==
    \A g \in 1..Len(report) :
        \A k, m \in 1..Len(report[g].commits) :
            k < m => DictGet(report[g].commits[k], "date")
                        <= DictGet(report[g].commits[m], "date")

\* C16: in every report written, text, markdown or json, the repository
\* groups are in the order of their full names and the commits of a group
\* are in ascending order of author date, whatever the order of the commit
\* records handed to the generator.
C16_ReportOrder ==
    \A r \in Reports :
        /\ GroupsInNameOrder(r[2])
        /\ "date" \in commit_fields => CommitsInDateOrder(r[2])

\* C16 for the text and the markdown report, and for the commits of a group
\* in the json report
C16_HoldsButForJsonGroups ==
    \A r \in Reports :
        /\ r[1] # "json" => GroupsInNameOrder(r[2])
        /\ "date" \in commit_fields => CommitsInDateOrder(r[2])

\* the json report of the records of dave/r3 followed by those of alice/r1
C16_JsonInInputOrder ==
    /\ pc = "diff_init"
    /\ "json" \in report_formats
    /\ Len(all_unique_commit_records) = 2
    /\ all_unique_commit_records[1].repo_full_name = "dave/r3"
    /\ all_unique_commit_records[2].repo_full_name = "alice/r1"
    /\ LET report == DictGet(files, ReportFile("json"))
       IN /\ Len(report) = 2
          /\ report[1].name = "dave/r3"
          /\ report[2].name = "alice/r1"

-----------------------------------------------------------------------------
(* Properties of fetch_repositories. *)

\* the places in repos_by_owner of the requested owners with no client of
\* their own while there is no default client
Lacking ==
    {i \in 1..Len(repos_by_owner) : NoCredentialFor(repos_by_owner[i][1])}

FirstLacking == CHOOSE i \in Lacking : \A k \in Lacking : i <= k

\* no commit listing was made and no report or diff was written, and the run
\* has not gone past fetch_repositories unless to end with exit code 1
NothingProduced ==
    /\ \A c \in calls : c.op = "get_repo"
    /\ ReportEntries(files) = {}
    /\ DiffEntries(files) = {}
    /\ pc \in {"save_metadata", "fetch_repositories", "exited"}
    /\ pc = "exited" => exitCode = 1

\* the requested names of the owners before place i of repos_by_owner
NamesBefore(i) ==
    UNION {{repos_by_owner[k][2][m] : m \in 1..Len(repos_by_owner[k][2])} :
           k \in {j \in 1..Len(repos_by_owner) : j < i}}

\* C17 as stated: when a requested owner has neither a client of its own nor
\* the default client, the run ends with exit code 1 before any repository
\* is fetched and without any commit listing, report or diff.
C17_AbortBeforeAnyFetch ==
    Lacking # {} =>
        /\ NothingProduced
        /\ calls = {}
        /\ (pc = "fetch_repositories" => fr_idx <= FirstLacking)

\* C17, amended: owners are resolved one after the other, each right before
\* its repositories are fetched; when a requested owner has neither a client
\* of its own nor the default client the run ends with exit code 1 when the
\* loop reaches that owner, with only repositories of the owners before it
\* fetched, and without any commit listing, report or diff.
C17_AbortAtOwner ==
    Lacking # {} =>
        /\ NothingProduced
        /\ \A c \in calls : c.op = "get_repo" => c.target \in NamesBefore(FirstLacking)
        /\ (pc = "fetch_repositories" => fr_idx <= FirstLacking)

\* the run ended at the second requested owner, a repository of the first
\* fetched
C17_Witness ==
    /\ Lacking # {}
    /\ FirstLacking = 2
    /\ Aborted
    /\ fr_idx = 3
    /\ \E c \in calls : c.op = "get_repo" /\ c.response # NoRepo

-----------------------------------------------------------------------------
(* Properties of the listing operations: failures. *)

\* reading the pull request feed raised: at an entry the scan came to
PullsRaised ==
    /\ pc = "listed"
    /\ remote.op = "get_pulls"
    /\ remote.failAt > 0
    /\ OldEntries # {} => remote.failAt <= FirstOld

\* reading the commits of the pull request raised
PrCommitsRaised ==
    /\ pc = "listed"
    /\ remote.op = "get_pr_commits"
    /\ remote.failAt > 0

\* reading the direct commits raised
CommitsRaised ==
    /\ pc = "listed"
    /\ remote.op = "get_commits"
    /\ remote.raised

\* C18: a listing operation whose remote call raised, at the first entry or
\* part-way through the listing, returns the empty list.
C18_FailedListingEmpty ==
    /\ CommitsRaised => all_commit_records = <<>>
    /\ PullsRaised => all_pull_requests = <<>>
    /\ PrCommitsRaised => all_pr_commit_records = <<>>

\* C18 for fetch_repo_commit_records alone
C18_HoldsForDirectCommits ==
    CommitsRaised => all_commit_records = <<>>

\* the pull request feed raised at its second entry and the first is returned
C18_PartialPulls ==
    /\ PullsRaised
    /\ remote.failAt = 2
    /\ all_pull_requests = <<remote.listing[1]>>

\* the commits of the pull request raised at the second and the first is
\* returned
C18_PartialPrCommits ==
    /\ PrCommitsRaised
    /\ remote.failAt = 2
    /\ all_pr_commit_records = <<CommitRecord("dave/r3", remote.listing[1], "pr")>>

-----------------------------------------------------------------------------
(* Properties of process_commits_and_prs: pull requests. *)

PrKey(pr) == <<pr.base.full_name, pr.number>>

PrCommitCalls == {c \in calls : c.op = "get_pr_commits"}

\* the loop over all_pull_requests is at a pull request
AtPullRequest ==
    /\ pc = "process"
    /\ fetch_pr_commits
    /\ proc_idx > Len(repos)
    /\ pr_idx <= Len(all_pull_requests)

\* what holds of the calls made for the commits of pull requests
PrCallsByKey ==
    /\ \A c \in PrCommitCalls :
          /\ fetch_pr_commits
          /\ c.target \in processed_pr_numbers
          /\ c.client = Resolve(apis, CallOwner(c))
          /\ \A d \in PrCommitCalls : d.target = c.target => d = c
    /\ (pc = "process" /\ fetch_pr_commits) =>
          \A i \in 1..Len(all_pull_requests) :
              i < pr_idx =>
                  /\ PrKey(all_pull_requests[i]) \in processed_pr_numbers
                  /\ Aborted \/ \E c \in PrCommitCalls :
                                     c.target = PrKey(all_pull_requests[i])
    /\ ~fetch_pr_commits =>
          /\ \A c \in calls : c.op \notin {"get_pulls", "get_pr_commits"}
          /\ all_pull_requests = <<>>
          /\ all_pr_commit_records = <<>>

\* a turn of the loop at a pull request whose key was dealt with changes
\* nothing but the place in the list; a turn at a new key with a client makes
\* a call that was not made before
PrTurn ==
    AtPullRequest =>
        LET key == PrKey(all_pull_requests[pr_idx])
        IN /\ key \in processed_pr_numbers =>
                 /\ calls' = calls
                 /\ all_pr_commit_records' = all_pr_commit_records
                 /\ processed_pr_numbers' = processed_pr_numbers
           /\ (key \notin processed_pr_numbers /\ pc' = "process") =>
                 \E c \in calls' \ calls :
                     /\ c.op = "get_pr_commits"
                     /\ c.target = key
                     /\ calls' = calls \cup {c}

\* C19: with PR-commit fetching on, the commits of a pull request are
\* listed once for each (base repository full name, number) among the
\* accumulated pull requests, with the client resolved from the owner of the
\* base repository; with PR-commit fetching off no pull request is listed
\* and no PR commit is fetched.
C19_PullRequestsOnceByKey == [](PrCallsByKey) /\ [][PrTurn]_vars

\* a pull request of dave/r3 found under two repositories, its commits
\* listed with the default client, not the client of alice or of bob
C19_Witness ==
    /\ pc = "process"
    /\ fetch_pr_commits
    /\ \E i, k \in 1..Len(all_pull_requests) :
          /\ i < k /\ k < pr_idx
          /\ PrKey(all_pull_requests[i]) = <<"dave/r3", 2>>
          /\ PrKey(all_pull_requests[k]) = <<"dave/r3", 2>>
    /\ \E c \in PrCommitCalls, d \in calls :
          /\ c.target = <<"dave/r3", 2>>
          /\ c.client = DictGet(apis, DefaultKey)
          /\ d.op = "get_pulls"
          /\ d.response[1] # <<>>
          /\ d.client # c.client

-----------------------------------------------------------------------------
(* Properties of process_commits_and_prs: direct commits. *)

\* the listings of direct commits made
CommitCalls == {c \in calls : c.op = "get_commits"}

\* the commits of a listing committed by the platform that pass the parent
\* filter
PlatformCommits(c) ==
    {c.response[2][i] :
        i \in {k \in 1..Len(c.response[2]) :
                  /\ c.response[2][k].committer = "GitHub"
                  /\ include_merge_commits \/ c.response[2][k].parents <= 1}}

\* the SHAs of the direct commit records of a repository
DirectShas(full_name) ==
    {all_commit_records[i].commit.sha :
        i \in {k \in 1..Len(all_commit_records) :
                  all_commit_records[k].repo_full_name = full_name}}

\* C20: the direct commits are fetched with the exclusion of PR merge commits
\* equal to fetch_pr_commits: a listed commit whose committer name is
\* 'GitHub', and which the parent filter lets through, is among the direct
\* commit records of its repository iff PR-commit fetching is off.
C20_FlagCoupling ==
    \A c \in CommitCalls :
        \A k \in PlatformCommits(c) :
            k.sha \in DirectShas(c.target) <=> ~fetch_pr_commits

\* with PR-commit fetching on, a listing with a commit of the platform: it
\* is dropped and the user's own commit is kept
C20_Witness ==
    /\ fetch_pr_commits
    /\ \E c \in CommitCalls :
          /\ K2 \in PlatformCommits(c)
          /\ "s2" \notin DirectShas(c.target)
          /\ "s1" \in DirectShas(c.target)

\* with PR-commit fetching off the commit of the platform is kept
C20_WitnessKept ==
    /\ ~fetch_pr_commits
    /\ \E c \in CommitCalls :
          /\ K2 \in PlatformCommits(c)
          /\ "s2" \in DirectShas(c.target)

-----------------------------------------------------------------------------
(* Properties of initialize_apis: the client of the default token. *)

\* the default token authenticated
DefaultClientMade == DefaultDone /\ default_api # NoClient

\* the lowercased login of the default token
DefaultLogin == Lower(default_api.login)

\* the owner entries the loop has dealt with that are not for that login and
\* whose token authenticates
OwnerClientsDue ==
    {i \in 1..Len(token_map) :
        /\ i < owner_idx
        /\ token_map[i][1] # DefaultLogin
        /\ Authenticates(token_map[i][2], env_token)}

\* C21: when the default token authenticates as login L, its client is
\* registered under lowercased L from then on and under the default key when
\* initialize_apis returns; an owner token given for L makes no client and
\* ends nothing, so that the lookup for owner L gives the client of the
\* default token.
C21_DefaultClientCoversLogin ==
    DefaultClientMade =>
        /\ pc # "exited"
        /\ DictHas(apis, DefaultLogin)
        /\ DictGet(apis, DefaultLogin) = default_api
        /\ default_api.id = 1
        /\ next_id = 1 + Cardinality(OwnerClientsDue)
        /\ pc = "check_apis" =>
              /\ DictHas(apis, DefaultKey)
              /\ DictGet(apis, DefaultKey) = default_api
              /\ Resolve(apis, DefaultLogin) = default_api

\* initialize_apis returned from a default token of alice and an owner token
\* of bob given for alice: one client
C21_Witness ==
    /\ pc = "check_apis"
    /\ default_api.login = "alice"
    /\ \E i \in 1..Len(token_map) :
          /\ token_map[i][1] = "alice"
          /\ LoginOf(token_map[i][2]) = "Bob"
    /\ next_id = 1
    /\ DictGet(apis, "alice") = default_api
    /\ DictGet(apis, DefaultKey) = default_api

-----------------------------------------------------------------------------
(* Properties of save_commit_diffs: failures. *)

\* save_commit_diffs was entered
DiffsBegun == diff_idx >= 1

\* the run is over after save_commit_diffs was entered
EndedInDiffs == pc = "exited" /\ DiffsBegun

\* C22: a failure for the diff of one commit, in reading its statistics or
\* its files from the remote service or in writing its file, does not end
\* the run: a run that entered save_commit_diffs ends with every commit of
\* the list dealt with and with exit code 0.
C22_DiffFailuresIsolated ==
    EndedInDiffs =>
        /\ diff_idx = Len(all_unique_commit_records) + 1
        /\ exitCode = 0

\* C22 for the runs in which no read for a diff raised
C22_HoldsForWriteFailures ==
    (EndedInDiffs /\ ~Crashed) =>
        /\ diff_idx = Len(all_unique_commit_records) + 1
        /\ exitCode = 0

\* the read for the first of two commits raised: the run is over, the second
\* commit not dealt with
C22_StoppedAtFirstCommit ==
    /\ EndedInDiffs
    /\ Len(all_unique_commit_records) = 2
    /\ diff_idx = 2
    /\ <<"read", DiffFile(all_unique_commit_records[1].commit.sha)>> \in faults
    /\ DiffEntries(files) = {}

\* the write for the first of two commits raised and the second was written
C22_WriteFailurePassed ==
    /\ EndedInDiffs
    /\ exitCode = 0
    /\ Len(all_unique_commit_records) = 2
    /\ <<"write", DiffFile(all_unique_commit_records[1].commit.sha)>> \in faults
    /\ DictHas(files, DiffFile(all_unique_commit_records[2].commit.sha))

-----------------------------------------------------------------------------
(* Properties of main: the empty result. *)

\* the listings of commits and of pull requests made in the run
ListingCalls ==
    {c \in calls : c.op \in {"get_commits", "get_pulls", "get_pr_commits"}}

\* the listing raised before it gave anything
RaisedAtOnce(c) ==
    IF c.op = "get_commits" THEN c.response[1] ELSE c.response[2] = 1

\* the listing did not raise
Answered(c) ==
    IF c.op = "get_commits" THEN ~c.response[1] ELSE c.response[2] = 0

\* process_commits_and_prs has returned and every listing it made raised
EveryListingFailed ==
    /\ pc = "check_empty"
    /\ ListingCalls # {}
    /\ \A c \in ListingCalls : RaisedAtOnce(c)

\* process_commits_and_prs has returned, no listing raised and none had a
\* commit of the user
NothingToReport ==
    /\ pc = "check_empty"
    /\ ListingCalls # {}
    /\ \A c \in ListingCalls : Answered(c)
    /\ all_unique_commit_records = <<>>

\* what the caller sees of the step that ends a run with no contributions:
\* exit code 0 and no file added to the output directory
EndsAsNoContributions ==
    /\ pc' = "exited"
    /\ exitCode' = 0
    /\ files' = files

\* C23: a run in which every commit and pull request listing failed does
\* not end as the run on the same inputs in which the remote service has no
\* commit of the user ends, that is with exit code 0 and the same files in
\* the output directory.
C23_FailedRunDistinct ==
    [][EveryListingFailed => ~EndsAsNoContributions]_vars

\* the run in which the remote service has no commit of the user ends with
\* exit code 0 and no file added
C23_EmptyRunOutcome ==
    [][NothingToReport => EndsAsNoContributions]_vars

-----------------------------------------------------------------------------
(* Properties of process_commits_and_prs: the list returned. *)

\* the places of the records of a SHA in a list of records
PlacesOf(records, sha) ==
    {i \in 1..Len(records) : records[i].commit.sha = sha}

\* the least of a non-empty set of places
Least(places) == CHOOSE i \in places : \A k \in places : i <= k

\* C24: the list process_commits_and_prs returns has the SHAs of the direct
\* commit records and of the PR commit records collected and no other, each
\* once; the SHAs follow one another as their first records do in the direct
\* records followed by the PR records, so that every commit of the direct
\* records comes before every commit found through pull requests alone; and
\* a SHA collected under two repositories is given under the repository of
\* its first record only.
C24_NothingLostOrInvented ==
    pc = "check_empty" =>
        LET out == all_unique_commit_records
            direct == ShasOf(all_commit_records)
            via_pr == ShasOf(all_pr_commit_records)
        IN /\ ShasOf(out) = direct \cup via_pr
           /\ Len(out) = Cardinality(direct \cup via_pr)
           /\ \A i, k \in 1..Len(out) :
                 i < k => Least(PlacesOf(MergeInput, out[i].commit.sha))
                            < Least(PlacesOf(MergeInput, out[k].commit.sha))
           /\ \A i, k \in 1..Len(out) :
                 (out[i].commit.sha \in direct /\ out[k].commit.sha \notin direct)
                     => i < k
           /\ \A i \in 1..Len(out) :
                 out[i].repo_full_name =
                     MergeInput[Least(PlacesOf(MergeInput, out[i].commit.sha))].repo_full_name

\* a SHA of two repositories in the direct records; the PR records hold
\* another SHA and then the first one again: two records returned, the
\* first repository kept
C24_Witness ==
    /\ pc = "check_empty"
    /\ Len(all_commit_records) = 2
    /\ all_commit_records[1].commit.sha = all_commit_records[2].commit.sha
    /\ all_commit_records[1].repo_full_name # all_commit_records[2].repo_full_name
    /\ Len(all_pr_commit_records) >= 2
    /\ all_pr_commit_records[1].commit.sha # all_commit_records[1].commit.sha
    /\ all_pr_commit_records[2].commit.sha = all_commit_records[1].commit.sha
    /\ all_unique_commit_records =
          <<all_commit_records[1], all_pr_commit_records[1]>>

-----------------------------------------------------------------------------
(* Properties of the interface. *)

\* the invocations whose child is running
Running == {i \in Runs : child[i] = "running"}

\* the invocations of run_tool between the guard and the finally clause
InTry == {i \in Runs : run_pc[i] \in {"popen", "started", "readline", "wait", "raised"}}

\* a step in which an invocation of run_tool ends
RunToolEnds ==
    \E i \in Runs : run_pc[i] \notin {"idle", "done"} /\ run_pc'[i] = "done"

\* C25: at most one child started by run_tool exists at a time; an
\* invocation of run_tool made while another is starting or running a child
\* returns without starting one; while a child runs proc_ref holds it (from
\* the moment the coroutine resumes after Popen), so that abort_tool kills
\* it; and when an invocation ends proc_ref is None and the Run button is
\* enabled.
C25_OneChild ==
    /\ [](/\ Cardinality(Running) <= 1
          /\ Cardinality(InTry) <= 1
          /\ \A i \in Running : proc_ref = i \/ run_pc[i] = "started")
    /\ [][RunToolEnds => (proc_ref' = 0 /\ run_btn' = "enabled")]_vars

\* the last part of C25 alone: when an invocation ends proc_ref is None and
\* the Run button is enabled
C25_HoldsAtEnd ==
    [][RunToolEnds => (proc_ref' = 0 /\ run_btn' = "enabled")]_vars

\* two children run at once
C25_TwoChildren == Cardinality(Running) = 2

\* a child runs, no invocation of run_tool holds it in proc_ref and the Run
\* button is enabled: the first of two invocations has ended
C25_ChildLeftBehind ==
    /\ Running # {}
    /\ proc_ref = 0
    /\ run_btn = "enabled"
    /\ \E i \in Runs : run_pc[i] = "done"
    /\ \E i \in Running : run_pc[i] = "readline"

=============================================================================
